---- MODULE Spec2Model ----
(***************************************************************************)
(* Mora counting, 5-7-5 segmentation, ruby parsing and haiku structure     *)
(* classification of tsukiuta-ai (src/src/syllable_counter.py and          *)
(* src/scripts/haiku_data_collector.py).                                   *)
(*                                                                         *)
(* A text is a sequence of characters.  Each character is written as an    *)
(* ASCII token: hiragana by their romaji ("tsu" is U+3064), small kana     *)
(* with an x prefix ("xya" is U+3083), full-width katakana with K_,        *)
(* half-width katakana with h_, kanji with kj_.                            *)
(***************************************************************************)
EXTENDS Integers, Sequences, FiniteSets, TLC

VARIABLES
    text,          \* the argument string of the calls
    op,            \* the call that has just returned ("idle" before any call)
    mora_count,    \* return value of count_mora / count_mora_with_ruby (-1: none yet)
    split_result,  \* return value of split_575 (None or a triple)
    valid,         \* return value of validate_575
    formatted,     \* return value of format_575
    pairs,         \* return value of extract_text_with_ruby
    haiku,         \* return value of is_haiku_structure
    season_tag,    \* return value of detect_season
    confidence,    \* return value of calculate_confidence, in tenths (-1: none yet)
    tsukiuta,      \* return value of PatternBasedGenerator.generate (None: none)
    raised,        \* the exception a call has raised ("none": it returned)
    shared_youon,  \* SyllableCounter.youon of the shared instance
    shared_kireji, \* AdvancedHaikuExtractor.kireji of the shared instance
    shared_kigo,   \* AdvancedHaikuExtractor.kigo of the shared instance
    shared_exclude,\* AdvancedHaikuExtractor.exclude_patterns of the shared instance
    calls,         \* per thread: the call it makes and its arguments
    pc,            \* per thread: "idle", "running" or "done"
    frames,        \* per frame: the local variables of the call that runs in it
    results,       \* per thread: the value its call returned
    multi_count,   \* the count argument of generate_multiple
    attempt,       \* the iterations generate_multiple's loop has made
    used_combinations, \* used_combinations of generate_multiple
    tsukiuta_list, \* results of generate_multiple, its return value in the end
    app,           \* the console that runs: "pattern", "model" or "none"
    status,        \* its loop: "prompt" (about to read a line), "ended" or "off"
    history,       \* TsukiutaCLI.history
    line,          \* what input() returned in the last iteration, before strip()
    branch,        \* the branch the last iteration took ("none" before any)
    shown,         \* the poem display_tsukiuta printed in the last iteration (None: none)
    listed,        \* the candidates the multi command printed in the last iteration
    saved          \* the list written to tsukiuta_history.json (<<>>: nothing written)

\* the results of AozoraHaikuScraperAdvanced's calls
scraper_vars == <<season_tag, confidence>>

\* the outcome of PatternBasedGenerator's calls
generator_vars == <<tsukiuta, raised>>

\* the attributes that __init__ sets and every call reads
lexicon_vars == <<shared_youon, shared_kireji, shared_kigo, shared_exclude>>

\* the concurrent calls
thread_vars == <<lexicon_vars, calls, pc, frames, results>>

\* the argument and the result of generate_multiple
multiple_vars == <<multi_count, attempt, used_combinations, tsukiuta_list>>

\* the interactive loop of a console
cli_vars == <<app, status, history, line, branch, shown, listed, saved>>

vars ==
    <<text, op, mora_count, split_result, valid, formatted, pairs, haiku,
      scraper_vars, generator_vars, thread_vars, multiple_vars, cli_vars>>

\* Python's None for the tuple-or-None result of split_575
None == <<>>

\* Python's None for the season-or-None result of detect_season
NoSeason == "None"

(***************************************************************************)
(* Characters                                                              *)
(***************************************************************************)
\* self.youon: U+3083 U+3085 U+3087 U+30E3 U+30E5 U+30E7
youon == <<"xya", "xyu", "xyo", "K_xya", "K_xyu", "K_xyo">>

\* self.sokuon: U+3063 U+30C3 U+3093 U+30F3
sokuon == <<"xtsu", "K_xtsu", "n", "K_n">>

\* self.chouon: U+30FC
chouon == <<"choon">>

\* the hiragana of the model, all inside the regex class [U+3041-U+3093]
Hiragana ==
    {"a", "i", "u", "o", "ka", "ki", "ku", "ke", "ko", "shi", "su", "ze", "chi",
     "tsu", "te", "to", "na", "ni", "no", "hi", "bi", "ma", "mi", "mu", "mo",
     "ya", "yu", "yo", "ri", "ru", "n", "xya", "xyu", "xyo", "xtsu",
     "ga", "zo", "da", "ta", "de", "do", "nu", "he", "ra", "re", "ro", "ha", "zu",
     "e", "gi", "gu", "ge", "go", "se", "so", "ne", "fu", "me", "wa", "wo",
     "bu"}

\* the full-width katakana of the model, all inside [U+30A1-U+30F3]
Katakana == {"K_ka", "K_ga", "K_xya", "K_xyu", "K_xyo", "K_xtsu", "K_n"}

\* the kanji of the model, all inside [U+4E00-U+9FA5] or U+3005
KanjiNumerals ==
    {"kj_ichi", "kj_ni", "kj_san", "kj_yon", "kj_go", "kj_roku", "kj_nana",
     "kj_hachi", "kj_kyuu", "kj_juu"}

Kanji ==
    KanjiNumerals \cup
    {"kj_dai", "kj_haru", "kj_sakura", "kj_ume", "kj_uguisu", "kj_kasumi",
     "kj_you", "kj_honoo", "kj_chou", "kj_na", "kj_hana", "kj_hina", "kj_kare",
     "kj_kishi", "kj_natsu", "kj_semi", "kj_hotaru", "kj_mukau", "kj_hi",
     "kj_aoi", "kj_kaminari", "kj_yuu", "kj_tatsu", "kj_ame", "kj_ao", "kj_ha",
     "kj_ase", "kj_ka", "kj_aki", "kj_tsuki", "kj_kurenai", "kj_mushi",
     "kj_tsuyu", "kj_kiri", "kj_ine", "kj_hagi", "kj_susuki", "kj_kuri",
     "kj_fuyu", "kj_yuki", "kj_shimo", "kj_koori", "kj_samu", "kj_ko",
     "kj_tatsu2", "kj_mochi", "kj_toshi", "kj_se", "kj_kare2", "kj_sae",
     "kj_ki", "kj_rei", "kj_bi", "kj_kan", "kj_dou", "kj_sei", "kj_raku",
     "kj_chaku", "kj_hikari", "kj_yoru", "kj_kaze", "kj_niwa", "kj_ishi",
     "kj_toki", "kj_ima"}

\* ASCII and full-width digits, [0-9] and [U+FF10-U+FF19]
Digits == {"d1", "zd1"}

\* characters a Python regex \s matches, and U+3000
Whitespace == {"sp", "zsp", "tab", "nl"}

\* U+3001 and U+3002
Punctuation == {"ten", "maru"}

(***************************************************************************)
(* Sequence helpers (Python str methods)                                   *)
(***************************************************************************)
\* c * n
Repeat(c, n) == [k \in 1..n |-> c]

\* text[a:b] with 0-based, end-exclusive Python indices 0 <= a <= b <= len
Slice(s, a, b) == SubSeq(s, a + 1, b)

\* s.count(c) for a single character c
RECURSIVE StrCount(_, _)
StrCount(s, c) ==
    IF s = <<>> THEN 0
    ELSE (IF Head(s) = c THEN 1 ELSE 0) + StrCount(Tail(s), c)

\* s.replace(c, '') for a single character c
StrRemove(s, c) == SelectSeq(s, LAMBDA x : x # c)

(***************************************************************************)
(* mojimoji.han_to_zen: half-width to full-width.  A half-width kana        *)
(* followed by the half-width voiced mark becomes ONE full-width kana.     *)
(***************************************************************************)
HanZenChar(c) ==
    CASE c = "sp" -> "zsp"
      [] c = "d1" -> "zd1"
      [] c = "h_ka" -> "K_ka"
      [] c = "h_xya" -> "K_xya"
      [] c = "h_dakuten" -> "dakuten"
      [] OTHER -> c

RECURSIVE han_to_zen(_)
han_to_zen(s) ==
    IF s = <<>> THEN <<>>
    ELSE IF Len(s) >= 2 /\ s[1] = "h_ka" /\ s[2] = "h_dakuten"
         THEN <<"K_ga">> \o han_to_zen(SubSeq(s, 3, Len(s)))
         ELSE <<HanZenChar(s[1])>> \o han_to_zen(Tail(s))

(***************************************************************************)
(* SyllableCounter                                                         *)
(***************************************************************************)
\* the loop "for y in self.youon: count -= text.count(y)" from its k-th entry
RECURSIVE YouonAdjust(_, _, _)
YouonAdjust(t, count, k) ==
    IF k > Len(youon) THEN count
    ELSE YouonAdjust(t, count - StrCount(t, youon[k]), k + 1)

\* count_mora without the conversion to full width
count_mora_NoNormalize(s) == YouonAdjust(s, Len(s), 1)

count_mora(s) ==
    LET t == han_to_zen(s)
    IN  YouonAdjust(t, Len(t), 1)

TotalMora == 17
UpperMora == 5
MiddleMora == 7
LowerMora == 5

\* only the ASCII space removed
StripSpaces_AsciiOnly(s) == StrRemove(s, "sp")

\* text.replace(' ', '').replace(U+3000, '')
StripSpaces(s) == StrRemove(StrRemove(s, "sp"), "zsp")

\* the inner loop keeping the last matching j instead of returning at the first
RECURSIVE SplitScanJ_Last(_, _, _)
SplitScanJ_Last(t, i, j) ==
    IF j >= Len(t) THEN None
    ELSE LET later == SplitScanJ_Last(t, i, j + 1)
         IN  IF later # None THEN later
             ELSE IF /\ count_mora(Slice(t, i, j)) = MiddleMora
                     /\ count_mora(Slice(t, j, Len(t))) = LowerMora
                  THEN <<Slice(t, 0, i), Slice(t, i, j), Slice(t, j, Len(t))>>
                  ELSE None

\* the inner loop without the check of the third part
RECURSIVE SplitScanJ_NoThird(_, _, _)
SplitScanJ_NoThird(t, i, j) ==
    IF j >= Len(t) THEN None
    ELSE IF count_mora(Slice(t, i, j)) = MiddleMora
         THEN <<Slice(t, 0, i), Slice(t, i, j), Slice(t, j, Len(t))>>
         ELSE SplitScanJ_NoThird(t, i, j + 1)

\* the inner loop "for j in range(i+1, len(text))" from j on
RECURSIVE SplitScanJ(_, _, _)
SplitScanJ(t, i, j) ==
    IF j >= Len(t) THEN None
    ELSE IF /\ count_mora(Slice(t, i, j)) = MiddleMora
            /\ count_mora(Slice(t, j, Len(t))) = LowerMora
         THEN <<Slice(t, 0, i), Slice(t, i, j), Slice(t, j, Len(t))>>
         ELSE SplitScanJ(t, i, j + 1)

\* the outer loop "for i in range(1, len(text))" from i on
RECURSIVE SplitScanI(_, _)
SplitScanI(t, i) ==
    IF i >= Len(t) THEN None
    ELSE LET inner == IF count_mora(Slice(t, 0, i)) = UpperMora
                      THEN SplitScanJ(t, i, i + 1)
                      ELSE None
         IN  IF inner # None THEN inner ELSE SplitScanI(t, i + 1)

\* split_575 without its total-count check
split_575_NoTotalCheck(s) == SplitScanI(StripSpaces(s), 1)

split_575(s) ==
    LET t == StripSpaces(s)
    IN  IF count_mora(t) # TotalMora THEN None ELSE SplitScanI(t, 1)

validate_575(s) == split_575(s) # None

\* format_575 falling back to the text without its spaces
format_575_StrippedFallback(s) ==
    LET result == split_575(s)
    IN  IF result # None
        THEN result[1] \o <<"sp">> \o result[2] \o <<"sp">> \o result[3]
        ELSE StripSpaces(s)

format_575(s) ==
    LET result == split_575(s)
    IN  IF result # None
        THEN result[1] \o <<"sp">> \o result[2] \o <<"sp">> \o result[3]
        ELSE s

(***************************************************************************)
(* AdvancedHaikuExtractor                                                  *)
(***************************************************************************)
\* self.kireji
kireji ==
    << <<"ya">>, <<"ka", "na">>, <<"ke", "ri">>, <<"yo">>, <<"zo">>, <<"ka">>,
       <<"ra", "n">>, <<"shi">>, <<"tsu">>, <<"nu">>, <<"he">>, <<"re">>,
       <<"na", "ri">> >>

\* self.kigo, in the insertion order of the dict
Seasons == <<"spring", "summer", "autumn", "winter">>

kigo ==
    [spring |-> << <<"kj_haru">>, <<"kj_sakura">>, <<"kj_ume">>, <<"kj_uguisu">>,
                   <<"kj_kasumi">>, <<"kj_you", "kj_honoo">>, <<"kj_chou">>,
                   <<"kj_na", "no", "kj_hana">>, <<"kj_hina">>,
                   <<"kj_kare", "kj_kishi">> >>,
     summer |-> << <<"kj_natsu">>, <<"kj_semi">>, <<"kj_hotaru">>,
                   <<"kj_mukau", "kj_hi", "kj_aoi">>, <<"kj_kaminari">>,
                   <<"kj_yuu", "kj_tatsu">>, <<"kj_ume", "kj_ame">>,
                   <<"kj_ao", "kj_ha">>, <<"kj_ase">>, <<"kj_ka">> >>,
     autumn |-> << <<"kj_aki">>, <<"kj_tsuki">>, <<"kj_kurenai", "kj_ha">>,
                   <<"kj_mushi">>, <<"kj_tsuyu">>, <<"kj_kiri">>, <<"kj_ine">>,
                   <<"kj_hagi">>, <<"kj_susuki">>, <<"kj_kuri">> >>,
     winter |-> << <<"kj_fuyu">>, <<"kj_yuki">>, <<"kj_shimo">>, <<"kj_koori">>,
                   <<"kj_samu">>, <<"kj_ko", "kj_tatsu2">>, <<"kj_mochi">>,
                   <<"kj_toshi", "no", "kj_se">>, <<"kj_kare2">>, <<"kj_sae">> >>]

\* w in s, for strings
Contains(s, w) ==
    \E a \in 0..(Len(s) - Len(w)) : Slice(s, a, a + Len(w)) = w

\* s.endswith(w)
EndsWith(s, w) ==
    /\ Len(w) <= Len(s)
    /\ Slice(s, Len(s) - Len(w), Len(s)) = w

\* some pattern of self.exclude_patterns is found in s by pattern.search
exclude_patterns(s) ==
    \/ \E a \in 1..(Len(s) - 2) :
          /\ s[a] \in Punctuation
          /\ s[a + 1] = "ga"
          /\ s[a + 2] \in Punctuation
    \/ Contains(s, <<"de", "su">>)
    \/ Contains(s, <<"ma", "su">>)
    \/ Contains(s, <<"de", "a", "ru">>)
    \/ Contains(s, <<"da", "xtsu", "ta">>)
    \/ \E a \in 1..(Len(s) - 1) : s[a] \in Digits /\ s[a + 1] \in Digits
    \/ \E a \in 1..(Len(s) - 1) : s[a] = "kj_dai" /\ s[a + 1] \in KanjiNumerals
    \/ (Len(s) >= 1 /\ s[1] \in {"kagi_open", "nikagi_open"})
    \/ Contains(s, <<"to", "i", "u">>)
    \/ Contains(s, <<"yo", "u", "na">>)
    \/ Contains(s, <<"na", "do", "no">>)

\* the end (0-based, exclusive) of the longest run of characters of class cls
\* that starts at 0-based position a; a itself when there is none
RECURSIVE RunEnd(_, _, _)
RunEnd(s, a, cls) ==
    IF a < Len(s) /\ s[a + 1] \in cls THEN RunEnd(s, a + 1, cls) ELSE a

\* ruby_pattern with a reading that may be empty ([hiragana]* for [hiragana]+)
RubyMatchEnd_EmptyReading(s, a) ==
    LET k == RunEnd(s, a, Kanji)
        h == RunEnd(s, k + 1, Hiragana)
    IN  IF /\ k > a
           /\ k < Len(s) /\ s[k + 1] = "ruby_open"
           /\ h < Len(s) /\ s[h + 1] = "ruby_close"
        THEN h + 1
        ELSE -1

\* ruby_pattern matched at 0-based position a: the end of the match, or -1.
\* ([kanji]+) then U+300A then ([hiragana]+) then U+300B; both runs are
\* greedy and the character after each run is outside its class
RubyMatchEnd(s, a) ==
    LET k == RunEnd(s, a, Kanji)
        h == RunEnd(s, k + 1, Hiragana)
    IN  IF /\ k > a
           /\ k < Len(s) /\ s[k + 1] = "ruby_open"
           /\ h > k + 1
           /\ h < Len(s) /\ s[h + 1] = "ruby_close"
        THEN h + 1
        ELSE -1

\* start of the leftmost match at or after position a, or -1
RECURSIVE RubySearch(_, _)
RubySearch(s, a) ==
    IF a >= Len(s) THEN -1
    ELSE IF RubyMatchEnd(s, a) # -1 THEN a
    ELSE RubySearch(s, a + 1)

\* the loop over the matches without the part after the last match
RECURSIVE RubyLoop_NoTrailing(_, _, _)
RubyLoop_NoTrailing(s, last_end, result) ==
    LET start == RubySearch(s, last_end)
    IN  IF start = -1
        THEN result
        ELSE LET pre_text == Slice(s, last_end, start)
                 withPre == IF last_end < start /\ pre_text # <<>>
                            THEN Append(result, <<pre_text, pre_text>>)
                            ELSE result
                 k == RunEnd(s, start, Kanji)
                 end == RubyMatchEnd(s, start)
                 kanji == Slice(s, start, k)
                 ruby == Slice(s, k + 1, end - 1)
             IN  RubyLoop_NoTrailing(s, end, Append(withPre, <<kanji, ruby>>))

\* the loop over ruby_pattern.finditer(text), then the trailing part
RECURSIVE RubyLoop(_, _, _)
RubyLoop(s, last_end, result) ==
    LET start == RubySearch(s, last_end)
    IN  IF start = -1
        THEN IF last_end < Len(s)
             THEN LET post_text == Slice(s, last_end, Len(s))
                  IN  IF post_text # <<>>
                      THEN Append(result, <<post_text, post_text>>)
                      ELSE result
             ELSE result
        ELSE LET pre_text == Slice(s, last_end, start)
                 withPre == IF last_end < start /\ pre_text # <<>>
                            THEN Append(result, <<pre_text, pre_text>>)
                            ELSE result
                 k == RunEnd(s, start, Kanji)
                 end == RubyMatchEnd(s, start)
                 kanji == Slice(s, start, k)
                 ruby == Slice(s, k + 1, end - 1)
             IN  RubyLoop(s, end, Append(withPre, <<kanji, ruby>>))

extract_text_with_ruby(s) == RubyLoop(s, 0, <<>>)

YouonChars == {"xya", "xyu", "xyo", "K_xya", "K_xyu", "K_xyo"}

\* _count_mora_kana with a small vowel adding 0 at index 0 as well
RECURSIVE KanaLoop_YouonFirst(_, _, _)
KanaLoop_YouonFirst(s, i, mora) ==
    IF i >= Len(s) THEN mora
    ELSE LET char == s[i + 1]
         IN  IF char \in {"xya", "xyu", "xyo", "K_xya", "K_xyu", "K_xyo"}
                 THEN KanaLoop_YouonFirst(s, i + 1, mora + 0)
             ELSE IF char \in {"xtsu", "K_xtsu", "n", "K_n", "choon"}
                 THEN KanaLoop_YouonFirst(s, i + 1, mora + 1)
             ELSE IF char \in Hiragana \cup Katakana
                 THEN KanaLoop_YouonFirst(s, i + 1, mora + 1)
             ELSE KanaLoop_YouonFirst(s, i + 1, mora)

\* the while loop of _count_mora_kana from index i (0-based) with mora so far
RECURSIVE KanaLoop(_, _, _)
KanaLoop(s, i, mora) ==
    IF i >= Len(s) THEN mora
    ELSE LET char == s[i + 1]
         IN  IF char \in YouonChars /\ i > 0
                 THEN KanaLoop(s, i + 1, mora + 0)
             ELSE IF char \in {"xtsu", "K_xtsu", "n", "K_n"}
                 THEN KanaLoop(s, i + 1, mora + 1)
             ELSE IF char = "choon"
                 THEN KanaLoop(s, i + 1, mora + 1)
             ELSE IF char \in Hiragana \cup Katakana
                 THEN IF i + 1 < Len(s) /\ s[i + 2] \in YouonChars
                      THEN KanaLoop(s, i + 2, mora + 1)
                      ELSE KanaLoop(s, i + 1, mora + 1)
             ELSE KanaLoop(s, i + 1, mora)

count_mora_kana(s) == KanaLoop(s, 0, 0)

\* x.replace(U+3001, '').replace(U+3002, '').replace(' ', '')
CleanPunct(s) == StrRemove(StrRemove(StrRemove(s, "ten"), "maru"), "sp")

KanjiEstimate == 2

\* the "for char in clean_text" loop of the branch without ruby
RECURSIVE PlainLoop(_, _)
PlainLoop(s, total) ==
    IF s = <<>> THEN total
    ELSE LET char == Head(s)
         IN  IF char \in Hiragana \cup Katakana
                 THEN PlainLoop(Tail(s), total + count_mora_kana(<<char>>))
             ELSE IF char \in Kanji
                 THEN PlainLoop(Tail(s), total + KanjiEstimate)
             ELSE PlainLoop(Tail(s), total)

\* the "for text, ruby in text_ruby_pairs" loop
RECURSIVE PairsLoop(_, _)
PairsLoop(ps, total) ==
    IF ps = <<>> THEN total
    ELSE LET t == Head(ps)[1]
             ruby == Head(ps)[2]
         IN  IF t # ruby
             THEN PairsLoop(Tail(ps), total + count_mora_kana(CleanPunct(ruby)))
             ELSE PairsLoop(Tail(ps), PlainLoop(CleanPunct(t), total))

\* the pairs counted with the plain counter count_mora on every reading
RECURSIVE count_mora_with_ruby_PlainCount(_)
count_mora_with_ruby_PlainCount(ps) ==
    IF ps = <<>> THEN 0
    ELSE count_mora(Head(ps)[2]) + count_mora_with_ruby_PlainCount(Tail(ps))

count_mora_with_ruby(ps) == PairsLoop(ps, 0)

MinHaikuMora == 15
MaxHaikuMora == 19
ThreeParts == 3
ExactHaikuMora == 17

\* len(re.split(r'[U+3000\s]', text)): every whitespace character separates
SplitPartCount(s) == 1 + Len(SelectSeq(s, LAMBDA x : x \in Whitespace))

\* re.search(r'[ki ku shi su mu ru]$', text); $ also matches before a final newline
TaigenEnding(s) ==
    LET E == {"ki", "ku", "shi", "su", "mu", "ru"}
        n == Len(s)
    IN  \/ (n >= 1 /\ s[n] \in E)
        \/ (n >= 2 /\ s[n] = "nl" /\ s[n - 1] \in E)

\* has_kireji that looks at the end of the text only
has_kireji_EndOnly(s) == \E k \in 1..Len(kireji) : EndsWith(s, kireji[k])

has_kireji(s) ==
    \E k \in 1..Len(kireji) :
        \/ EndsWith(s, kireji[k])
        \/ Contains(s, kireji[k] \o <<"zsp">>)
        \/ Contains(s, kireji[k] \o <<"sp">>)

has_kigo(s) ==
    \E season \in DOMAIN kigo :
        \E k \in 1..Len(kigo[season]) : Contains(s, kigo[season][k])

\* is_haiku_structure without the loop over self.exclude_patterns
is_haiku_structure_NoExclusion(s, mora) ==
    IF ~(MinHaikuMora <= mora /\ mora <= MaxHaikuMora) THEN FALSE
    ELSE IF SplitPartCount(s) = ThreeParts THEN TRUE
    ELSE IF has_kireji(s) \/ has_kigo(s) THEN TRUE
    ELSE IF TaigenEnding(s) THEN TRUE
    ELSE mora = ExactHaikuMora

\* is_haiku_structure without its check of the mora range
is_haiku_structure_NoRange(s, mora) ==
    IF exclude_patterns(s) THEN FALSE
    ELSE IF SplitPartCount(s) = ThreeParts THEN TRUE
    ELSE IF has_kireji(s) \/ has_kigo(s) THEN TRUE
    ELSE IF TaigenEnding(s) THEN TRUE
    ELSE mora = ExactHaikuMora

is_haiku_structure(s, mora) ==
    IF ~(MinHaikuMora <= mora /\ mora <= MaxHaikuMora) THEN FALSE
    ELSE IF exclude_patterns(s) THEN FALSE
    ELSE IF SplitPartCount(s) = ThreeParts THEN TRUE
    ELSE IF has_kireji(s) \/ has_kigo(s) THEN TRUE
    ELSE IF TaigenEnding(s) THEN TRUE
    ELSE mora = ExactHaikuMora

\* re.sub(r'U+300A[^U+300B]*U+300B', '', line): drop every bracketed group
RECURSIVE RemoveRuby(_)
RemoveRuby(s) ==
    IF s = <<>> THEN <<>>
    ELSE IF Head(s) = "ruby_open" /\ \E b \in 2..Len(s) : s[b] = "ruby_close"
         THEN LET b == CHOOSE c \in 2..Len(s) :
                          /\ s[c] = "ruby_close"
                          /\ \A d \in 2..(c - 1) : s[d] # "ruby_close"
              IN  RemoveRuby(SubSeq(s, b + 1, Len(s)))
         ELSE <<Head(s)>> \o RemoveRuby(Tail(s))

(***************************************************************************)
(* AozoraHaikuScraperAdvanced                                              *)
(***************************************************************************)
\* detect_season that goes through every season and keeps the last match
RECURSIVE SeasonLoop_LastMatch(_, _)
SeasonLoop_LastMatch(s, k) ==
    IF k > Len(Seasons) THEN NoSeason
    ELSE LET later == SeasonLoop_LastMatch(s, k + 1)
         IN  IF later # NoSeason THEN later
             ELSE IF \E w \in 1..Len(kigo[Seasons[k]]) :
                        Contains(s, kigo[Seasons[k]][w])
                 THEN Seasons[k]
             ELSE NoSeason

\* the "for season, kigos in self.extractor.kigo.items()" loop of
\* detect_season from the k-th season on: the first season with a word in s
RECURSIVE SeasonLoop(_, _)
SeasonLoop(s, k) ==
    IF k > Len(Seasons) THEN NoSeason
    ELSE IF \E w \in 1..Len(kigo[Seasons[k]]) : Contains(s, kigo[Seasons[k]][w])
        THEN Seasons[k]
    ELSE SeasonLoop(s, k + 1)

detect_season(s) == SeasonLoop(s, 1)

\* any(text.endswith(kireji) for kireji in self.extractor.kireji)
ends_with_kireji(s) == \E k \in 1..Len(kireji) : EndsWith(s, kireji[k])

\* the confidence values are kept in tenths: 0.5 is 5, 0.3 is 3, 0.1 is 1 and
\* 1.0 is 10.  Every sum the code can form is within one unit in the last
\* place of a tenth (0.5 + 0.1 + 0.1 + 0.1 is 0.7999999999999999).
BaseConfidence == 5
ExactConfidenceMora == 17
ExactBonus == 3
NearMinMora == 16
NearMaxMora == 18
NearBonus == 1
KirejiBonus == 1
SeasonBonus == 1
MaxConfidence == 10

Min(a, b) == IF a <= b THEN a ELSE b

\* calculate_confidence with the near bonus added on top of the exact bonus
calculate_confidence_BothBonuses(s, mora) ==
    Min(BaseConfidence
            + (IF mora = ExactConfidenceMora THEN ExactBonus ELSE 0)
            + (IF NearMinMora <= mora /\ mora <= NearMaxMora THEN NearBonus ELSE 0)
            + (IF ends_with_kireji(s) THEN KirejiBonus ELSE 0)
            + (IF detect_season(s) # NoSeason THEN SeasonBonus ELSE 0),
        MaxConfidence)

\* calculate_confidence without the bonus for a detected season
calculate_confidence_NoSeason(s, mora) ==
    Min(BaseConfidence
            + (IF mora = ExactConfidenceMora THEN ExactBonus
               ELSE IF NearMinMora <= mora /\ mora <= NearMaxMora THEN NearBonus
               ELSE 0)
            + (IF ends_with_kireji(s) THEN KirejiBonus ELSE 0),
        MaxConfidence)

calculate_confidence(s, mora) ==
    LET c0 == BaseConfidence
        c1 == IF mora = ExactConfidenceMora THEN c0 + ExactBonus
              ELSE IF NearMinMora <= mora /\ mora <= NearMaxMora THEN c0 + NearBonus
              ELSE c0
        c2 == IF ends_with_kireji(s) THEN c1 + KirejiBonus ELSE c1
        c3 == IF detect_season(s) # NoSeason THEN c2 + SeasonBonus ELSE c2
    IN  Min(c3, MaxConfidence)

(***************************************************************************)
(* PatternBasedGenerator                                                   *)
(***************************************************************************)
\* self.kami_5
kami_5 ==
    << <<"tsu", "ki", "a", "ka", "ri">>,
       <<"a", "ki", "no", "yo", "no">>,
       <<"shi", "zu", "ka", "na", "ru">>,
       <<"tsu", "ki", "ka", "ge", "ga">>,
       <<"yo", "ru", "no", "ni", "wa">>,
       <<"i", "shi", "da", "ta", "mi">>,
       <<"ka", "ze", "su", "zu", "shi">>,
       <<"tsu", "ki", "wo", "mi", "te">>,
       <<"ko", "ko", "ro", "ni", "mo">>,
       <<"hi", "to", "ri", "ki", "te">> >>

\* self.naka_7; its last entry has 6 characters
naka_7 ==
    << <<"ko", "ko", "ro", "ni", "shi", "mi", "ru">>,
       <<"shi", "zu", "ka", "ni", "te", "ra", "su">>,
       <<"ka", "ga", "ya", "ki", "wa", "ta", "ru">>,
       <<"hi", "ka", "ri", "wo", "a", "bi", "te">>,
       <<"so", "ra", "ni", "u", "ka", "bi", "te">>,
       <<"ni", "wa", "wo", "te", "ra", "shi", "te">>,
       <<"o", "mo", "i", "wo", "ha", "se", "ru">>,
       <<"to", "ki", "wo", "wa", "su", "re", "te">>,
       <<"yu", "me", "mi", "ru", "go", "to", "ku">>,
       <<"ka", "ze", "to", "to", "mo", "ni">> >>

\* self.shimo_5
shimo_5 ==
    << <<"a", "ki", "no", "yo", "ru">>,
       <<"shi", "zu", "ka", "na", "ri">>,
       <<"u", "tsu", "ku", "shi", "ki">>,
       <<"ko", "ko", "ro", "a", "ri">>,
       <<"to", "ki", "na", "ga", "ru">>,
       <<"ka", "ze", "zo", "fu", "ku">>,
       <<"tsu", "ki", "no", "ka", "ge">>,
       <<"yo", "ru", "fu", "ke", "te">>,
       <<"o", "mo", "i", "a", "ri">>,
       <<"hi", "to", "ri", "ka", "na">> >>

\* self.keyword_mappings as (key, elements) pairs in the insertion order of the dict
keyword_mappings ==
    << << <<"kj_ki", "kj_rei">>,
          << <<"u", "tsu", "ku", "shi", "ki">>,
             <<"ka", "ga", "ya", "ki", "wa", "ta", "ru">>,
             <<"ko", "ko", "ro", "ni", "shi", "mi", "ru">> >> >>,
       << <<"kj_bi", "shi", "i">>,
          << <<"u", "tsu", "ku", "shi", "ki">>,
             <<"ka", "ga", "ya", "ki", "wa", "ta", "ru">>,
             <<"mi", "to", "re", "ke", "ri">> >> >>,
       << <<"kj_kan", "kj_dou">>,
          << <<"ko", "ko", "ro", "ni", "shi", "mi", "ru">>,
             <<"o", "mo", "i", "wo", "ha", "se", "ru">>,
             <<"mu", "ne", "ni", "hi", "bi", "ku">> >> >>,
       << <<"kj_sei", "ka">>,
          << <<"shi", "zu", "ka", "na", "ru">>,
             <<"shi", "zu", "ka", "na", "ri">>,
             <<"shi", "zu", "ka", "ni", "te", "ra", "su">> >> >>,
       << <<"kj_raku", "chi", "kj_chaku">>,
          << <<"ko", "ko", "ro", "ya", "su", "ra", "gu">>,
             <<"o", "da", "ya", "ka", "na", "ri">>,
             <<"to", "ki", "wo", "wa", "su", "re", "te">> >> >>,
       << <<"kj_tsuki">>,
          << <<"tsu", "ki", "a", "ka", "ri">>,
             <<"tsu", "ki", "ka", "ge", "ga">>,
             <<"tsu", "ki", "wo", "mi", "te">>,
             <<"tsu", "ki", "no", "ka", "ge">> >> >>,
       << <<"kj_hikari">>,
          << <<"hi", "ka", "ri", "wo", "a", "bi", "te">>,
             <<"ka", "ga", "ya", "ki", "wa", "ta", "ru">>,
             <<"te", "ra", "shi", "ke", "ri">> >> >>,
       << <<"kj_yoru">>,
          << <<"yo", "ru", "no", "ni", "wa">>,
             <<"a", "ki", "no", "yo", "ru">>,
             <<"yo", "ru", "fu", "ke", "te">> >> >>,
       << <<"kj_aki">>,
          << <<"a", "ki", "no", "yo", "no">>,
             <<"a", "ki", "ka", "ze", "ni">>,
             <<"a", "ki", "no", "yo", "ru">> >> >>,
       << <<"kj_kaze">>,
          << <<"ka", "ze", "su", "zu", "shi">>,
             <<"ka", "ze", "to", "to", "mo", "ni">>,
             <<"ka", "ze", "zo", "fu", "ku">> >> >>,
       << <<"kj_niwa">>,
          << <<"ni", "wa", "wo", "te", "ra", "shi", "te">>,
             <<"yo", "ru", "no", "ni", "wa">>,
             <<"ni", "wa", "ni", "ta", "tsu">> >> >>,
       << <<"kj_ishi">>,
          << <<"i", "shi", "da", "ta", "mi">>,
             <<"i", "shi", "ni", "tsu", "mo", "ru">>,
             <<"i", "wa", "no", "u", "e">> >> >>,
       << <<"kj_toki">>,
          << <<"to", "ki", "na", "ga", "ru">>,
             <<"to", "ki", "wo", "wa", "su", "re", "te">>,
             <<"to", "ki", "su", "gi", "te">> >> >>,
       << <<"kj_ima">>,
          << <<"i", "ma", "ko", "ko", "ni">>,
             <<"ko", "no", "to", "ki", "wo">>,
             <<"i", "ma", "wo", "i", "ki", "ru">> >> >> >>

\* the keys of keyword_mappings that occur in the user input
MappedKeys(u) ==
    { keyword_mappings[k][1] :
        k \in { j \in 1..Len(keyword_mappings) : Contains(u, keyword_mappings[j][1]) } }

\* the regex class [U+3041-U+3093 U+30A1-U+30F3 U+4E00-U+9FA5]
JapaneseWordChars == Hiragana \cup Katakana \cup Kanji

\* re.findall(r'[class]{2,4}', s) from the 0-based position a: greedy,
\* leftmost, non-overlapping matches of 2 to 4 characters
RECURSIVE FindWords(_, _)
FindWords(s, a) ==
    IF a >= Len(s) THEN {}
    ELSE LET e == RunEnd(s, a, JapaneseWordChars)
             n == IF e - a > 4 THEN 4 ELSE e - a
         IN  IF n >= 2 THEN {Slice(s, a, a + n)} \cup FindWords(s, a + n)
             ELSE FindWords(s, a + 1)

\* extract_keywords: list(set(keywords)), so a set
extract_keywords(u) == MappedKeys(u) \cup FindWords(u, 0)

\* related_elements of select_patterns, as a set
related_elements(keywords) ==
    UNION { { keyword_mappings[k][2][e] : e \in 1..Len(keyword_mappings[k][2]) } :
            k \in { j \in 1..Len(keyword_mappings) : keyword_mappings[j][1] \in keywords } }

\* [p for p in patterns if any(e in p for e in related)], or every pattern
\* when that list is empty
Candidates(patterns, related) ==
    LET found == { patterns[i] : i \in { j \in 1..Len(patterns) :
                       \E e \in related : Contains(patterns[j], e) } }
    IN  IF found = {} THEN { patterns[i] : i \in 1..Len(patterns) } ELSE found

\* select_patterns: every triple that the three random.choice calls can give
select_patterns(keywords) ==
    LET related == related_elements(keywords)
    IN  Candidates(kami_5, related) \X Candidates(naka_7, related)
            \X Candidates(shimo_5, related)

\* short_keywords of generate_with_keyword_insertion
short_keywords(u) ==
    { k \in extract_keywords(u) : 2 <= Len(k) /\ Len(k) <= 3 /\ k[1] \notin Hiragana }

\* the three patterns built around a keyword
InsertionPatterns(keyword) ==
    << << keyword \o <<"no", "yo", "ru">>,
          <<"shi", "zu", "ka", "ni", "te", "ra", "su">>,
          <<"tsu", "ki", "a", "ka", "ri">> >>,
       << <<"tsu", "ki", "a", "ka", "ri">>,
          keyword \o <<"wo", "te", "ra", "shi", "te">>,
          <<"shi", "zu", "ka", "na", "ri">> >>,
       << keyword \o <<"mi", "te">>,
          <<"ko", "ko", "ro", "o", "da", "ya", "ka">>,
          <<"a", "ki", "no", "yo", "ru">> >> >>

\* " ".join(pattern)
JoinParts(pattern) == pattern[1] \o <<"sp">> \o pattern[2] \o <<"sp">> \o pattern[3]

\* the "for pattern in patterns" loop from the k-th pattern on: the first
\* pattern with 17 morae in all and 5, 7 and 5 in its parts, None when none
RECURSIVE InsertionLoop(_, _)
InsertionLoop(patterns, k) ==
    IF k > Len(patterns) THEN None
    ELSE LET pattern == patterns[k]
         IN  IF /\ count_mora(pattern[1]) + count_mora(pattern[2])
                      + count_mora(pattern[3]) = 17
                /\ count_mora(pattern[1]) = 5
                /\ count_mora(pattern[2]) = 7
                /\ count_mora(pattern[3]) = 5
             THEN JoinParts(pattern)
             ELSE InsertionLoop(patterns, k + 1)

\* generate_with_keyword_insertion: every value it can return.  None when
\* there is no short keyword or random.random() is at least 0.3
generate_with_keyword_insertion(u) ==
    {None} \cup { InsertionLoop(InsertionPatterns(keyword), 1) :
                    keyword \in short_keywords(u) }

\* the three assert statements of generate and its return statement
CheckedResult(kami, naka, shimo) ==
    IF count_mora(kami) = 5 /\ count_mora(naka) = 7 /\ count_mora(shimo) = 5
    THEN [tsukiuta |-> JoinParts(<<kami, naka, shimo>>), raised |-> "none"]
    ELSE [tsukiuta |-> None, raised |-> "AssertionError"]

\* generate: every outcome the random choices allow
generate(u) ==
    { [tsukiuta |-> r, raised |-> "none"] :
        r \in generate_with_keyword_insertion(u) \ {None} }
    \cup { CheckedResult(t[1], t[2], t[3]) : t \in select_patterns(extract_keywords(u)) }

\* the elements of a list
Range(q) == { q[k] : k \in 1..Len(q) }

\* the body of generate_multiple's loop up to the test of len(results), for
\* the combination that select_patterns has drawn
MultipleBody(combination, so_far, used) ==
    IF combination \notin used
    THEN [results |-> Append(so_far, JoinParts(combination)),
          used |-> used \cup {combination}]
    ELSE [results |-> so_far, used |-> used]

\* the loop goes on: range(count * 3) is not exhausted and the break of
\* "if len(results) >= count" has not been taken
MultipleGoesOn(so_far, i, n) == i < n * 3 /\ Len(so_far) < n

\* generate_multiple's loop from iteration i on: every list it can end with
\* (user_input and so the keywords are the same in every iteration)
RECURSIVE MultipleLoop(_, _, _, _, _)
MultipleLoop(combinations, so_far, used, i, n) ==
    IF ~MultipleGoesOn(so_far, i, n) THEN {so_far}
    ELSE UNION { LET after == MultipleBody(combination, so_far, used)
                 IN  MultipleLoop(combinations, after.results, after.used, i + 1, n)
                 : combination \in combinations }

\* generate_multiple(user_input, count): every list the random choices allow
generate_multiple(u, n) ==
    MultipleLoop(select_patterns(extract_keywords(u)), <<>>, {}, 0, n)

(***************************************************************************)
(* TsukiutaGenerator (src/src/tsukiuta_generator.py)                       *)
(***************************************************************************)
\* the regex class [U+3041-U+3093 U+30A1-U+30F3]
KanaWordChars == Hiragana \cup Katakana

\* re.findall(r'[class]{2,4}', user_input) from the 0-based position a
RECURSIVE FindKanaWords(_, _)
FindKanaWords(s, a) ==
    IF a >= Len(s) THEN {}
    ELSE LET e == RunEnd(s, a, KanaWordChars)
             n == IF e - a > 4 THEN 4 ELSE e - a
         IN  IF n >= 2 THEN {Slice(s, a, a + n)} \cup FindKanaWords(s, a + n)
             ELSE FindKanaWords(s, a + 1)

\* keywords of generate_with_fixed_patterns: the kana words, or the one
\* word "omoi" when there is none
fixed_keywords(u) ==
    IF FindKanaWords(u, 0) = {} THEN { <<"o", "mo", "i">> } ELSE FindKanaWords(u, 0)

\* the three patterns with KEYWORD replaced by the keyword (a keyword has
\* at most 4 characters, so it is never cut)
FixedPatterns(keyword) ==
    { << <<"tsu", "ki", "a", "ka", "ri">>,
         keyword \o <<"sp", "wo", "te", "ra", "shi", "te">>,
         <<"shi", "zu", "ka", "na", "ri">> >>,
      << <<"a", "ki", "no", "yo", "no">>,
         keyword \o <<"sp", "no", "na", "ka", "ni">>,
         <<"tsu", "ki", "u", "ka", "bu">> >>,
      << keyword \o <<"sp", "ni">>,
         <<"tsu", "ki", "no", "hi", "ka", "ri", "ga">>,
         <<"so", "so", "gi", "ke", "ri">> >> }

\* generate_with_fixed_patterns: every string the two random.choice calls allow
generate_with_fixed_patterns(u) ==
    UNION { { JoinParts(pattern) : pattern \in FixedPatterns(keyword) } :
            keyword \in fixed_keywords(u) }

\* generate_tsukiuta runs a language model, which is not part of the
\* repository: it returns None, a line format_575 has split, or a line of
\* 10 to 25 characters as the model gave it, or it raises
ModelPoems ==
    { <<"tsu", "ki", "a", "ka", "ri", "sp",
        "ko", "ko", "ro", "ni", "shi", "mi", "ru", "sp",
        "a", "ki", "no", "yo", "ru">> }

generate_tsukiuta ==
    { [tsukiuta |-> None, raised |-> "none"],
      [tsukiuta |-> None, raised |-> "RuntimeError"] }
    \cup { [tsukiuta |-> poem, raised |-> "none"] : poem \in ModelPoems }

(***************************************************************************)
(* The interactive loops of generate_cli_pattern.py and generate_cli.py    *)
(***************************************************************************)
\* ASCII letters are written l_ (lower case) and L_ (upper case)
LowerChar(c) ==
    CASE c = "L_Q" -> "l_q"
      [] c = "L_S" -> "l_s"
      [] c = "L_Y" -> "l_y"
      [] OTHER -> c

\* str.lower()
Lower(s) == [k \in 1..Len(s) |-> LowerChar(s[k])]

\* str.strip(): the whitespace at both ends is removed
RECURSIVE LStrip(_)
LStrip(s) == IF s # <<>> /\ Head(s) \in Whitespace THEN LStrip(Tail(s)) ELSE s

RECURSIVE RStrip(_)
RStrip(s) ==
    IF s # <<>> /\ s[Len(s)] \in Whitespace THEN RStrip(SubSeq(s, 1, Len(s) - 1)) ELSE s

Strip(s) == RStrip(LStrip(s))

QuitWords ==
    { <<"l_q", "l_u", "l_i", "l_t">>, <<"l_e", "l_x", "l_i", "l_t">>, <<"l_q">> }

HistoryWord == <<"l_h", "l_i", "l_s", "l_t", "l_o", "l_r", "l_y">>

SaveWord == <<"l_s", "l_a", "l_v", "l_e">>

MultiWord == <<"l_m", "l_u", "l_l", "l_t", "l_i">>

YesWord == <<"l_y">>

\* the longest input a poem is generated for
MaxInputLength == 50

\* the count of the multi command
MultiCount == 5

\* the consoles and the commands each one tests for: generate_cli.py has no
\* multi command
Consoles == {"pattern", "model"}

HasMulti(console) == console = "pattern"

\* what the tests on user_input at the head of an iteration select
Command(console, user_input) ==
    CASE Lower(user_input) \in QuitWords -> "quit"
      [] Lower(user_input) = HistoryWord -> "history"
      [] Lower(user_input) = SaveWord -> "save"
      [] HasMulti(console) /\ Lower(user_input) = MultiWord -> "multi"
      [] OTHER -> IF user_input = <<>> THEN "empty"
                  ELSE IF Len(user_input) > MaxInputLength THEN "too_long"
                  ELSE "generate"

\* the generator of a console called on user_input: every outcome.  The
\* model console falls back to generate_with_fixed_patterns on None.
Generated(console, user_input) ==
    IF console = "pattern" THEN generate(user_input)
    ELSE { r \in generate_tsukiuta : r.tsukiuta # None \/ r.raised # "none" }
         \cup { [tsukiuta |-> poem, raised |-> "none"] :
                  poem \in generate_with_fixed_patterns(user_input) }

\* the except clauses of the loop: KeyboardInterrupt breaks, any other
\* exception is reported and the loop continues
AfterException_Propagate(exception) == "ended"

AfterException(exception) ==
    IF exception = "KeyboardInterrupt" THEN "ended" ELSE "prompt"

\* the branch an iteration is recorded with when it ends in an exception
Caught(exception) == IF exception = "KeyboardInterrupt" THEN "interrupt" ELSE "error"

\* self.history.append(entry)
HistoryAppend_Front(entries, entry) == <<entry>> \o entries

HistoryAppend(entries, entry) == Append(entries, entry)

\* datetime.now().isoformat(): the clock is read once for each entry, and
\* a reading is written as its number
Now(entries) == Len(entries) + 1

\* the dict appended to history
HistoryEntry(entries, user_input, poem) ==
    [timestamp |-> Now(entries), input |-> user_input, tsukiuta |-> poem]

(***************************************************************************)
(* Concurrent calls on one SyllableCounter, one AdvancedHaikuExtractor and *)
(* one AozoraHaikuScraperAdvanced.  The attributes set by __init__ are     *)
(* shared; the local variables of a call live in the frame of that call.   *)
(* A call runs in steps, and every step reads the shared attributes it     *)
(* uses at the moment it is taken.                                         *)
(***************************************************************************)
Threads == {1, 2}

\* every call of every thread running in one and the same frame
Frame_Shared(t) == 1

\* the frame that holds the local variables of thread t's call
Frame(t) == t

\* self.exclude_patterns as the positions of its six compiled patterns
ConstructedExclude == <<1, 2, 3, 4, 5, 6>>

\* pattern.search(s) for the n-th pattern of self.exclude_patterns
ExcludePattern(n, s) ==
    CASE n = 1 -> \E a \in 1..(Len(s) - 2) :
                     /\ s[a] \in Punctuation
                     /\ s[a + 1] = "ga"
                     /\ s[a + 2] \in Punctuation
      [] n = 2 -> \/ Contains(s, <<"de", "su">>)
                  \/ Contains(s, <<"ma", "su">>)
                  \/ Contains(s, <<"de", "a", "ru">>)
                  \/ Contains(s, <<"da", "xtsu", "ta">>)
      [] n = 3 -> \E a \in 1..(Len(s) - 1) : s[a] \in Digits /\ s[a + 1] \in Digits
      [] n = 4 -> \E a \in 1..(Len(s) - 1) :
                     s[a] = "kj_dai" /\ s[a + 1] \in KanjiNumerals
      [] n = 5 -> Len(s) >= 1 /\ s[1] \in {"kagi_open", "nikagi_open"}
      [] n = 6 -> \/ Contains(s, <<"to", "i", "u">>)
                  \/ Contains(s, <<"yo", "u", "na">>)
                  \/ Contains(s, <<"na", "do", "no">>)

\* a call: the method and its arguments (text, mora_count, text_ruby_pairs)
NoCall == [call |-> "none", text |-> <<>>, mora |-> 0, pairs |-> <<>>]

\* the local variables of a call: the loop position k, whether a return
\* statement has been reached, and one local of each type (a number, a
\* season, a truth value, a string or list)
NewFrame == [k |-> 0, ret |-> FALSE, n |-> 0, s |-> NoSeason, b |-> FALSE, q |-> <<>>]

\* the local variables when the call reaches its first loop or test
Entry(c) ==
    CASE c.call = "count_mora" -> [NewFrame EXCEPT !.n = Len(han_to_zen(c.text))]
      [] c.call = "split_575" -> [NewFrame EXCEPT !.q = StripSpaces(c.text)]
      [] c.call = "calculate_confidence" -> [NewFrame EXCEPT !.n = BaseConfidence]
      [] OTHER -> NewFrame

\* "for y in ys: count -= t.count(y)" from the k-th entry of the list ys
RECURSIVE YouonAdjustWith(_, _, _, _)
YouonAdjustWith(ys, t, count, k) ==
    IF k > Len(ys) THEN count
    ELSE YouonAdjustWith(ys, t, count - StrCount(t, ys[k]), k + 1)

\* detect_season over the table kg, from the k-th season on
RECURSIVE SeasonWith(_, _, _)
SeasonWith(kg, s, k) ==
    IF k > Len(Seasons) THEN NoSeason
    ELSE IF \E w \in 1..Len(kg[Seasons[k]]) : Contains(s, kg[Seasons[k]][w])
        THEN Seasons[k]
    ELSE SeasonWith(kg, s, k + 1)

\* one iteration of count_mora's loop over self.youon, or its return
StepCountMora(c, f, ys) ==
    IF f.k < Len(ys)
    THEN [f EXCEPT !.k = f.k + 1,
                   !.n = f.n - StrCount(han_to_zen(c.text), ys[f.k + 1])]
    ELSE [f EXCEPT !.ret = TRUE]

\* split_575: the test of the total count, then the search
StepSplit575(c, f, ys) ==
    IF f.k = 0
    THEN LET t == han_to_zen(f.q)
         IN  IF YouonAdjustWith(ys, t, Len(t), 1) # TotalMora
             THEN [f EXCEPT !.q = None, !.ret = TRUE]
             ELSE [f EXCEPT !.k = 1]
    ELSE [f EXCEPT !.q = SplitScanI(f.q, 1), !.ret = TRUE]

\* extract_text_with_ruby reads no attribute but the compiled ruby pattern
StepExtract(c, f) == [f EXCEPT !.q = extract_text_with_ruby(c.text), !.ret = TRUE]

\* one iteration of count_mora_with_ruby's loop over the pairs, or its return
StepCountPairs(c, f) ==
    IF f.k < Len(c.pairs)
    THEN [f EXCEPT !.k = f.k + 1, !.n = PairsLoop(<<c.pairs[f.k + 1]>>, f.n)]
    ELSE [f EXCEPT !.ret = TRUE]

\* is_haiku_structure: the range test, one exclusion pattern per step, then
\* the accepting rules
StepIsHaiku(c, f, ex, kr, kg) ==
    IF f.k = 0
    THEN IF ~(MinHaikuMora <= c.mora /\ c.mora <= MaxHaikuMora)
         THEN [f EXCEPT !.b = FALSE, !.ret = TRUE]
         ELSE [f EXCEPT !.k = 1]
    ELSE IF f.k <= Len(ex)
    THEN IF ExcludePattern(ex[f.k], c.text)
         THEN [f EXCEPT !.b = FALSE, !.ret = TRUE]
         ELSE [f EXCEPT !.k = f.k + 1]
    ELSE LET found_kireji ==
                 \E k \in 1..Len(kr) :
                     \/ EndsWith(c.text, kr[k])
                     \/ Contains(c.text, kr[k] \o <<"zsp">>)
                     \/ Contains(c.text, kr[k] \o <<"sp">>)
             found_kigo ==
                 \E name \in DOMAIN kg :
                     \E k \in 1..Len(kg[name]) : Contains(c.text, kg[name][k])
         IN  [f EXCEPT !.ret = TRUE,
                       !.b = \/ SplitPartCount(c.text) = ThreeParts
                             \/ found_kireji
                             \/ found_kigo
                             \/ TaigenEnding(c.text)
                             \/ c.mora = ExactHaikuMora]

\* one iteration of detect_season's loop over self.extractor.kigo
StepDetectSeason(c, f, kg) ==
    IF f.k < Len(Seasons)
    THEN IF \E w \in 1..Len(kg[Seasons[f.k + 1]]) :
                Contains(c.text, kg[Seasons[f.k + 1]][w])
         THEN [f EXCEPT !.s = Seasons[f.k + 1], !.ret = TRUE]
         ELSE [f EXCEPT !.k = f.k + 1]
    ELSE [f EXCEPT !.s = NoSeason, !.ret = TRUE]

\* calculate_confidence: the mora bonus, the cutting-particle bonus, the
\* season bonus, the clamp
StepConfidence(c, f, kr, kg) ==
    CASE f.k = 0 ->
           [f EXCEPT !.k = 1,
                     !.n = IF c.mora = ExactConfidenceMora THEN f.n + ExactBonus
                           ELSE IF NearMinMora <= c.mora /\ c.mora <= NearMaxMora
                               THEN f.n + NearBonus
                           ELSE f.n]
      [] f.k = 1 ->
           [f EXCEPT !.k = 2,
                     !.n = IF \E k \in 1..Len(kr) : EndsWith(c.text, kr[k])
                           THEN f.n + KirejiBonus ELSE f.n]
      [] f.k = 2 ->
           [f EXCEPT !.k = 3,
                     !.n = IF SeasonWith(kg, c.text, 1) # NoSeason
                           THEN f.n + SeasonBonus ELSE f.n]
      [] OTHER -> [f EXCEPT !.n = Min(f.n, MaxConfidence), !.ret = TRUE]

\* the value a call returns from its frame
ReturnValue(c, f) ==
    CASE c.call \in {"count_mora", "count_mora_with_ruby", "calculate_confidence"} -> f.n
      [] c.call \in {"split_575", "extract_text_with_ruby"} -> f.q
      [] c.call = "is_haiku_structure" -> f.b
      [] c.call = "detect_season" -> f.s

\* after construction: the attributes as __init__ sets them, no call made
NoThreads ==
    /\ shared_youon = youon
    /\ shared_kireji = kireji
    /\ shared_kigo = kigo
    /\ shared_exclude = ConstructedExclude
    /\ calls = [t \in Threads |-> NoCall]
    /\ pc = [t \in Threads |-> "idle"]
    /\ frames = [t \in Threads |-> NewFrame]
    /\ results = [t \in Threads |-> "none"]

\* no console started
NoConsole ==
    /\ app = "none"
    /\ status = "off"
    /\ history = <<>>
    /\ line = <<>>
    /\ branch = "none"
    /\ shown = None
    /\ listed = <<>>
    /\ saved = <<>>

\* generate_multiple not called, no console started
NoSession ==
    /\ multi_count = 0
    /\ attempt = 0
    /\ used_combinations = {}
    /\ tsukiuta_list = <<>>
    /\ NoConsole

(***************************************************************************)
(* Inputs                                                                  *)
(***************************************************************************)
\* the test cases of syllable_counter.py: 17 plain kana, 17 plain kana, and
\* 15 characters with one small yo and two small tsu
TestCases ==
    { <<"tsu", "ki", "a", "ka", "ri", "i", "shi", "ni", "shi", "mi", "i", "ru",
        "a", "ki", "no", "o", "to">>,
      <<"a", "ki", "no", "yo", "no", "tsu", "ki", "ha", "shi", "zu", "ka", "ni",
        "te", "ra", "shi", "ke", "ri">>,
      <<"chi", "xyo", "xtsu", "to", "ma", "xtsu", "te", "yo", "yu", "u", "bi",
        "n", "ki", "ta", "yo">> }

\* upper phrases: kami_5[0]; 6 characters with a small yo; the same with a
\* half-width small ya; a half-width ka with its voiced mark before 4 kana;
\* 4 kana before a half-width ka
UpperPhrases ==
    { <<"tsu", "ki", "a", "ka", "ri">>,
      <<"ki", "xyo", "u", "no", "tsu", "ki">>,
      <<"ki", "h_xya", "u", "no", "tsu", "ki">>,
      <<"h_ka", "h_dakuten", "tsu", "ki", "a", "ka">>,
      <<"tsu", "ki", "a", "ka", "h_ka">> }

\* middle phrases: naka_7[0]; naka_7[9] (6 characters); 7 kana of test case 1;
\* 8 characters of test case 3 with one small yo
MiddlePhrases ==
    { <<"ko", "ko", "ro", "ni", "shi", "mi", "ru">>,
      <<"ka", "ze", "to", "to", "mo", "ni">>,
      <<"i", "shi", "ni", "shi", "mi", "i", "ru">>,
      <<"chi", "xyo", "xtsu", "to", "ma", "xtsu", "te", "yo">> }

\* lower phrases: end of test case 1; shimo_5[9]; shimo_5[0]
LowerPhrases ==
    { <<"a", "ki", "no", "o", "to">>,
      <<"hi", "to", "ri", "ka", "na">>,
      <<"a", "ki", "no", "yo", "ru">> }

\* what may stand between two phrases
Junctions == { <<>>, <<"sp">>, <<"zsp">>, <<"tab">>, <<"xya">>, <<"h_dakuten">> }

PhraseInputs ==
    { u \o j1 \o m \o j2 \o l :
        u \in UpperPhrases, j1 \in Junctions, m \in MiddlePhrases,
        j2 \in Junctions, l \in LowerPhrases }

\* longest run of one degenerate character, and longest run that may follow it
MaxRun == 19
MaxTail == 2

\* whitespace, U+3001, U+3002 and the opening bracket U+300C
DegenerateChars == {"sp", "zsp", "tab", "nl", "ten", "maru", "kagi_open"}

\* texts of whitespace and punctuation only, the empty text included
DegenerateInputs ==
    { Repeat(c1, n1) \o Repeat(c2, n2) :
        c1 \in DegenerateChars, n1 \in 0..MaxRun,
        c2 \in DegenerateChars, n2 \in 0..MaxTail }

\* one small kana, moraic nasal or long-vowel mark alone
SingleCharInputs ==
    { <<youon[k]>> : k \in 1..Len(youon) } \cup
    { <<sokuon[k]>> : k \in 1..Len(sokuon) } \cup
    { <<chouon[k]>> : k \in 1..Len(chouon) }

Inputs == TestCases \cup PhraseInputs \cup DegenerateInputs \cup SingleCharInputs

\* ruby markup is built from these blocks: a kanji, a hiragana, the two
\* brackets, a katakana, and one well-formed kanji + reading group
RubyBlocks ==
    { <<"kj_tsuki">>, <<"tsu">>, <<"ruby_open">>, <<"ruby_close">>, <<"K_ka">>,
      <<"kj_tsuki", "ruby_open", "tsu", "ki", "ruby_close">> }

MaxBlocks == 5

RECURSIVE Flatten(_)
Flatten(bs) == IF bs = <<>> THEN <<>> ELSE Head(bs) \o Flatten(Tail(bs))

RubyInputs ==
    { Flatten(bs) : bs \in UNION { [1..n -> RubyBlocks] : n \in 0..MaxBlocks } }

(***************************************************************************)
(* The calls                                                               *)
(***************************************************************************)
NoResult ==
    /\ op = "idle"
    /\ mora_count = -1
    /\ split_result = None
    /\ valid = FALSE
    /\ formatted = <<>>
    /\ pairs = <<>>
    /\ haiku = FALSE
    /\ season_tag = NoSeason
    /\ confidence = -1
    /\ tsukiuta = None
    /\ raised = "none"
    /\ NoThreads
    /\ NoSession

Init == text \in Inputs /\ NoResult

InitRuby == text \in RubyInputs /\ NoResult

CountMora ==
    /\ op = "idle"
    /\ mora_count' = count_mora(text)
    /\ op' = "count_mora"
    /\ UNCHANGED <<cli_vars, multiple_vars, thread_vars, generator_vars, scraper_vars, text, split_result, valid, formatted, pairs, haiku>>

Split575 ==
    /\ op = "idle"
    /\ split_result' = split_575(text)
    /\ op' = "split_575"
    /\ UNCHANGED <<cli_vars, multiple_vars, thread_vars, generator_vars, scraper_vars, text, mora_count, valid, formatted, pairs, haiku>>

Validate575 ==
    /\ op = "idle"
    /\ valid' = validate_575(text)
    /\ op' = "validate_575"
    /\ UNCHANGED <<cli_vars, multiple_vars, thread_vars, generator_vars, scraper_vars, text, mora_count, split_result, formatted, pairs, haiku>>

Format575 ==
    /\ op = "idle"
    /\ formatted' = format_575(text)
    /\ op' = "format_575"
    /\ UNCHANGED <<cli_vars, multiple_vars, thread_vars, generator_vars, scraper_vars, text, mora_count, split_result, valid, pairs, haiku>>

\* is_haiku_structure(text, count_mora(text))
IsHaikuStructure ==
    /\ op = "count_mora"
    /\ haiku' = is_haiku_structure(text, mora_count)
    /\ op' = "is_haiku_structure"
    /\ UNCHANGED <<cli_vars, multiple_vars, thread_vars, generator_vars, scraper_vars, text, mora_count, split_result, valid, formatted, pairs>>

\* extract_haiku_from_text, per line: the three steps of its loop body
ExtractTextWithRuby ==
    /\ op = "idle"
    /\ pairs' = extract_text_with_ruby(text)
    /\ op' = "extract_text_with_ruby"
    /\ UNCHANGED <<cli_vars, multiple_vars, thread_vars, generator_vars, scraper_vars, text, mora_count, split_result, valid, formatted, haiku>>

CountMoraWithRuby ==
    /\ op = "extract_text_with_ruby"
    /\ mora_count' = count_mora_with_ruby(pairs)
    /\ op' = "count_mora_with_ruby"
    /\ UNCHANGED <<cli_vars, multiple_vars, thread_vars, generator_vars, scraper_vars, text, split_result, valid, formatted, pairs, haiku>>

ClassifyLine ==
    /\ op = "count_mora_with_ruby"
    /\ haiku' = is_haiku_structure(RemoveRuby(text), mora_count)
    /\ op' = "classify_line"
    /\ UNCHANGED <<cli_vars, multiple_vars, thread_vars, generator_vars, scraper_vars, text, mora_count, split_result, valid, formatted, pairs>>

Next ==
    \/ CountMora
    \/ Split575
    \/ Validate575
    \/ Format575
    \/ IsHaikuStructure
    \/ ExtractTextWithRuby
    \/ CountMoraWithRuby
    \/ ClassifyLine

Spec == Init /\ [][Next]_vars

NextRuby ==
    \/ ExtractTextWithRuby
    \/ CountMoraWithRuby
    \/ ClassifyLine

SpecRuby == InitRuby /\ [][NextRuby]_vars

(***************************************************************************)
(* count_mora_with_ruby called on pairs of any content                     *)
(***************************************************************************)
\* characters of a reading: a plain kana, a small ya, a katakana small yo,
\* a small tsu, a katakana n, the long-vowel mark, the katakana vu (U+30F4,
\* beyond the regex class [U+30A1-U+30F3]), a kanji, U+3001, an ASCII space
\* and a tab
ReadingChars ==
    {"ki", "xya", "K_xyo", "xtsu", "K_n", "choon", "K_vu", "kj_tsuki", "ten",
     "sp", "tab"}

MaxReading == 3

Readings == UNION { [1..n -> ReadingChars] : n \in 0..MaxReading }

\* one pair, annotated (a kanji surface) or not (surface = reading), alone
\* or after an annotated pair that has already added its 2 morae
PairInputs ==
    { before \o << <<IF annotated THEN <<"kj_tsuki">> ELSE reading, reading>> >> :
        before \in { <<>>, << << <<"kj_tsuki">>, <<"tsu", "ki">> >> >> },
        annotated \in BOOLEAN,
        reading \in Readings }

InitPairs ==
    /\ text = <<>>
    /\ op = "idle"
    /\ mora_count = -1
    /\ split_result = None
    /\ valid = FALSE
    /\ formatted = <<>>
    /\ pairs \in PairInputs
    /\ haiku = FALSE
    /\ season_tag = NoSeason
    /\ confidence = -1
    /\ tsukiuta = None
    /\ raised = "none"
    /\ NoThreads
    /\ NoSession

\* count_mora_with_ruby(pairs) on pairs given by the caller
CountPairs ==
    /\ op = "idle"
    /\ mora_count' = count_mora_with_ruby(pairs)
    /\ op' = "count_pairs"
    /\ UNCHANGED <<cli_vars, multiple_vars, thread_vars, generator_vars, scraper_vars, text, split_result, valid, formatted, pairs, haiku>>

NextPairs == CountPairs

SpecPairs == InitPairs /\ [][NextPairs]_vars

(***************************************************************************)
(* is_haiku_structure, detect_season and calculate_confidence called with  *)
(* a text and a mora count of the caller's choice                          *)
(***************************************************************************)
MaxPieces == 4

\* the mora counts around the accepted range
MoraArgs == (MinHaikuMora - 1)..(MaxHaikuMora + 1)

\* a neutral kana, the cutting particle ya, the ending ki, an ASCII space,
\* U+3000, a newline, the seasonal word U+6708, the excluded "desu" and the
\* excluded opening bracket
HaikuPieces ==
    { <<"a">>, <<"ya">>, <<"ki">>, <<"sp">>, <<"zsp">>, <<"nl">>, <<"kj_tsuki">>,
      <<"de", "su">>, <<"kagi_open">> }

HaikuTexts ==
    { Flatten(bs) : bs \in UNION { [1..n -> HaikuPieces] : n \in 0..MaxPieces } }

\* the cutting particle ya and seasonal kanji: U+6885 (spring), U+96E8
\* (summer after U+6885), U+8749 (summer), U+6708 (autumn), U+96EA (winter)
SeasonPieces ==
    { <<"ya">>, <<"kj_ume">>, <<"kj_ame">>, <<"kj_semi">>, <<"kj_tsuki">>,
      <<"kj_yuki">> }

SeasonTexts ==
    { Flatten(bs) : bs \in UNION { [1..n -> SeasonPieces] : n \in 0..MaxPieces } }

\* both arguments are the caller's
Given ==
    /\ op = "given"
    /\ mora_count \in MoraArgs
    /\ split_result = None
    /\ valid = FALSE
    /\ formatted = <<>>
    /\ pairs = <<>>
    /\ haiku = FALSE
    /\ season_tag = NoSeason
    /\ confidence = -1
    /\ tsukiuta = None
    /\ raised = "none"
    /\ NoThreads
    /\ NoSession

InitHaiku == text \in HaikuTexts /\ Given

InitSeason == text \in SeasonTexts /\ Given

\* is_haiku_structure(text, mora_count)
CallIsHaikuStructure ==
    /\ op = "given"
    /\ haiku' = is_haiku_structure(text, mora_count)
    /\ op' = "is_haiku_structure"
    /\ UNCHANGED <<cli_vars, multiple_vars, thread_vars, generator_vars, scraper_vars, text, mora_count, split_result, valid, formatted, pairs>>

\* detect_season(text)
DetectSeason ==
    /\ op = "given"
    /\ season_tag' = detect_season(text)
    /\ op' = "detect_season"
    /\ UNCHANGED <<text, mora_count, split_result, valid, formatted, pairs, haiku,
                   confidence, generator_vars, thread_vars, multiple_vars, cli_vars>>

\* calculate_confidence(text, mora_count)
CalculateConfidence ==
    /\ op = "given"
    /\ confidence' = calculate_confidence(text, mora_count)
    /\ op' = "calculate_confidence"
    /\ UNCHANGED <<text, mora_count, split_result, valid, formatted, pairs, haiku,
                   season_tag, generator_vars, thread_vars, multiple_vars, cli_vars>>

NextHaiku == CallIsHaikuStructure

SpecHaiku == InitHaiku /\ [][NextHaiku]_vars

NextSeason ==
    \/ DetectSeason
    \/ CalculateConfidence

SpecSeason == InitSeason /\ [][NextSeason]_vars

(***************************************************************************)
(* PatternBasedGenerator.generate called on a user input                   *)
(***************************************************************************)
\* words of a user input: nothing, four keys of one kanji (U+98A8, U+6708,
\* U+4ECA whose elements are in no list, U+5EAD), three longer keys, a
\* particle, and a katakana with a small ya
UserWords ==
    { <<>>, <<"kj_kaze">>, <<"kj_tsuki">>, <<"kj_ima">>, <<"kj_niwa">>,
      <<"kj_ki", "kj_rei">>, <<"kj_bi", "shi", "i">>, <<"kj_sei", "ka">>,
      <<"ga">>, <<"K_ka", "K_xya">> }

UserInputs == { first \o second : first \in UserWords, second \in UserWords }

InitGenerate == text \in UserInputs /\ NoResult

\* generate(user_input)
Generate ==
    /\ op = "idle"
    /\ \E outcome \in generate(text) :
          /\ tsukiuta' = outcome.tsukiuta
          /\ raised' = outcome.raised
    /\ op' = "generate"
    /\ UNCHANGED <<cli_vars, multiple_vars, thread_vars, scraper_vars, text, mora_count, split_result, valid,
                   formatted, pairs, haiku>>

NextGenerate == Generate

SpecGenerate == InitGenerate /\ [][NextGenerate]_vars

(***************************************************************************)
(* Two threads calling the seven methods on the shared instances           *)
(***************************************************************************)
\* the calls a thread can make: each method on arguments that take it
\* through its loops and through its early returns
CallInputs ==
    { [NoCall EXCEPT !.call = "count_mora",
                     !.text = <<"ki", "xyo", "u", "no", "K_xya", "tsu", "ki">>],
      [NoCall EXCEPT !.call = "split_575",
                     !.text = <<"tsu", "ki", "a", "ka", "ri", "sp", "i", "shi", "ni",
                                "shi", "mi", "i", "ru", "zsp", "a", "ki", "no", "o",
                                "to">>],
      [NoCall EXCEPT !.call = "split_575",
                     !.text = <<"ki", "xyo", "u", "no", "tsu", "ki">>],
      [NoCall EXCEPT !.call = "extract_text_with_ruby",
                     !.text = <<"kj_tsuki", "ruby_open", "tsu", "ki", "ruby_close",
                                "ya">>],
      [NoCall EXCEPT !.call = "count_mora_with_ruby",
                     !.pairs = << << <<"kj_tsuki">>, <<"tsu", "ki">> >>,
                                  << <<"ki", "xya">>, <<"ki", "xya">> >> >>],
      [NoCall EXCEPT !.call = "is_haiku_structure",
                     !.text = <<"kj_tsuki", "ya">>, !.mora = 16],
      [NoCall EXCEPT !.call = "is_haiku_structure",
                     !.text = <<"kj_tsuki", "to", "i", "u">>, !.mora = 17],
      [NoCall EXCEPT !.call = "is_haiku_structure",
                     !.text = <<"a">>, !.mora = 20],
      [NoCall EXCEPT !.call = "detect_season", !.text = <<"kj_yuki", "kj_tsuki">>],
      [NoCall EXCEPT !.call = "detect_season", !.text = <<"a">>],
      [NoCall EXCEPT !.call = "calculate_confidence",
                     !.text = <<"kj_tsuki", "ya">>, !.mora = 17],
      [NoCall EXCEPT !.call = "calculate_confidence",
                     !.text = <<"a">>, !.mora = 16] }

InitThreads == text = <<>> /\ NoResult

\* thread t enters a call
BeginCall(t) ==
    /\ pc[t] \in {"idle", "done"}
    /\ \E c \in CallInputs :
          /\ calls' = [calls EXCEPT ![t] = c]
          /\ frames' = [frames EXCEPT ![Frame(t)] = Entry(c)]
    /\ pc' = [pc EXCEPT ![t] = "running"]
    /\ results' = [results EXCEPT ![t] = "none"]
    /\ UNCHANGED lexicon_vars

\* thread t is inside a call of the method and has not reached a return
Running(t, method) ==
    /\ pc[t] = "running"
    /\ calls[t].call = method
    /\ ~frames[Frame(t)].ret

\* thread t takes one step that leaves its frame as next
StepTo(t, next) ==
    /\ frames' = [frames EXCEPT ![Frame(t)] = next]
    /\ UNCHANGED <<lexicon_vars, calls, pc, results>>

CountMoraStep(t) ==
    /\ Running(t, "count_mora")
    /\ StepTo(t, StepCountMora(calls[t], frames[Frame(t)], shared_youon))

Split575Step(t) ==
    /\ Running(t, "split_575")
    /\ StepTo(t, StepSplit575(calls[t], frames[Frame(t)], shared_youon))

ExtractStep(t) ==
    /\ Running(t, "extract_text_with_ruby")
    /\ StepTo(t, StepExtract(calls[t], frames[Frame(t)]))

CountPairsStep(t) ==
    /\ Running(t, "count_mora_with_ruby")
    /\ StepTo(t, StepCountPairs(calls[t], frames[Frame(t)]))

IsHaikuStep(t) ==
    /\ Running(t, "is_haiku_structure")
    /\ StepTo(t, StepIsHaiku(calls[t], frames[Frame(t)], shared_exclude,
                             shared_kireji, shared_kigo))

DetectSeasonStep(t) ==
    /\ Running(t, "detect_season")
    /\ StepTo(t, StepDetectSeason(calls[t], frames[Frame(t)], shared_kigo))

ConfidenceStep(t) ==
    /\ Running(t, "calculate_confidence")
    /\ StepTo(t, StepConfidence(calls[t], frames[Frame(t)], shared_kireji,
                                shared_kigo))

\* thread t's call returns
ReturnCall(t) ==
    /\ pc[t] = "running"
    /\ frames[Frame(t)].ret
    /\ results' = [results EXCEPT ![t] = ReturnValue(calls[t], frames[Frame(t)])]
    /\ pc' = [pc EXCEPT ![t] = "done"]
    /\ UNCHANGED <<lexicon_vars, calls, frames>>

ThreadStep(t) ==
    \/ BeginCall(t)
    \/ CountMoraStep(t)
    \/ Split575Step(t)
    \/ ExtractStep(t)
    \/ CountPairsStep(t)
    \/ IsHaikuStep(t)
    \/ DetectSeasonStep(t)
    \/ ConfidenceStep(t)
    \/ ReturnCall(t)

NextThreads ==
    /\ \E t \in Threads : ThreadStep(t)
    /\ UNCHANGED <<text, op, mora_count, split_result, valid, formatted, pairs, haiku,
                   scraper_vars, generator_vars, multiple_vars, cli_vars>>

SpecThreads == InitThreads /\ [][NextThreads]_vars

(***************************************************************************)
(* PatternBasedGenerator.generate_multiple called on a user input and a    *)
(* count                                                                   *)
(***************************************************************************)
MaxCount == 3

\* user inputs with few combinations: U+98A8 (one, its middle phrase has 6
\* characters), U+9759 ka (one), both keys (eight)
NarrowInputs ==
    { <<"kj_kaze">>, <<"kj_sei", "ka">>, <<"kj_kaze", "kj_sei", "ka">> }

\* user inputs with many combinations, called with a small count: U+6708
\* (thirty), the empty input and U+4ECA (every pattern: a thousand)
WideCalls ==
    { << <<"kj_tsuki">>, 1 >>, << <<"kj_tsuki">>, 2 >>, << <<>>, 1 >>,
      << <<"kj_ima">>, 1 >> }

MultipleCalls == { <<u, n>> : u \in NarrowInputs, n \in (-1)..MaxCount } \cup WideCalls

InitMultiple ==
    /\ \E c \in MultipleCalls : text = c[1] /\ multi_count = c[2]
    /\ attempt = 0
    /\ used_combinations = {}
    /\ tsukiuta_list = <<>>
    /\ op = "idle"
    /\ mora_count = -1
    /\ split_result = None
    /\ valid = FALSE
    /\ formatted = <<>>
    /\ pairs = <<>>
    /\ haiku = FALSE
    /\ season_tag = NoSeason
    /\ confidence = -1
    /\ tsukiuta = None
    /\ raised = "none"
    /\ NoThreads
    /\ NoConsole

\* one iteration of the loop of generate_multiple(user_input, count)
MultipleAttempt ==
    /\ op = "idle"
    /\ MultipleGoesOn(tsukiuta_list, attempt, multi_count)
    /\ \E combination \in select_patterns(extract_keywords(text)) :
          LET after == MultipleBody(combination, tsukiuta_list, used_combinations)
          IN  /\ tsukiuta_list' = after.results
              /\ used_combinations' = after.used
    /\ attempt' = attempt + 1
    /\ UNCHANGED <<cli_vars, thread_vars, generator_vars, scraper_vars, text, op,
                   mora_count, split_result, valid, formatted, pairs, haiku, multi_count>>

\* the loop is over and generate_multiple returns results
MultipleReturn ==
    /\ op = "idle"
    /\ ~MultipleGoesOn(tsukiuta_list, attempt, multi_count)
    /\ op' = "generate_multiple"
    /\ UNCHANGED <<cli_vars, thread_vars, generator_vars, scraper_vars, text, mora_count,
                   split_result, valid, formatted, pairs, haiku, multiple_vars>>

NextMultiple == MultipleAttempt \/ MultipleReturn

SpecMultiple == InitMultiple /\ [][NextMultiple]_vars

(***************************************************************************)
(* The interactive loop of a console: one action per branch of an         *)
(* iteration, from the prompt to the next prompt or to the end of the loop *)
(***************************************************************************)
MaxHistory == 2

\* an input of 50 characters: U+3042 44 times, then the keys U+98A8 and
\* U+9759 ka, each between two U+3001.  Its combinations are eight, four of
\* them with naka_7's entry of 6 characters.
FullInput ==
    Repeat("a", MaxInputLength - 6) \o <<"ten", "kj_kaze", "ten", "kj_sei", "ka", "ten">>

\* the same after one more U+3042: 51 characters
LongInput == <<"a">> \o FullInput

\* what input() returns at the main prompt: the commands (two of them in
\* upper case, one after a space), nothing, whitespace, 51 characters, 50
\* characters, and 50 characters followed by a space
Lines ==
    { <<"sp", "L_Q">>, <<"l_e", "l_x", "l_i", "l_t">>,
      HistoryWord, <<"L_S", "l_a", "l_v", "l_e">>, MultiWord,
      <<>>, <<"sp", "zsp">>, LongInput, FullInput, FullInput \o <<"sp">> }

\* what input() returns at the question whether to save
Answers == { <<"L_Y">>, <<"l_n">> }

\* what input() returns at the prompt of the multi command
SubLines == { <<>>, <<"kj_kaze">>, <<"kj_sei", "ka", "sp">> }

\* what input() raises instead of returning: Ctrl-C, or end of file on stdin
InputErrors == {"KeyboardInterrupt", "EOFError"}

InitConsole ==
    /\ app \in Consoles
    /\ status = "prompt"
    /\ history = <<>>
    /\ line = <<>>
    /\ branch = "none"
    /\ shown = None
    /\ listed = <<>>
    /\ saved = <<>>
    /\ text = <<>>
    /\ op = "idle"
    /\ mora_count = -1
    /\ split_result = None
    /\ valid = FALSE
    /\ formatted = <<>>
    /\ pairs = <<>>
    /\ haiku = FALSE
    /\ season_tag = NoSeason
    /\ confidence = -1
    /\ tsukiuta = None
    /\ raised = "none"
    /\ multi_count = 0
    /\ attempt = 0
    /\ used_combinations = {}
    /\ tsukiuta_list = <<>>
    /\ NoThreads

\* the iteration that read ln ends: with the exception ex ("none": with
\* none), in branch br, with the loop in st, the poem sh displayed, the
\* candidates li listed, history h and the file sv
IterationEnds(ex, ln, br, st, sh, li, h, sv) ==
    /\ raised' = ex
    /\ line' = ln
    /\ branch' = br
    /\ status' = st
    /\ shown' = sh
    /\ listed' = li
    /\ history' = h
    /\ saved' = sv
    /\ UNCHANGED <<app, text, op, mora_count, split_result, valid, formatted, pairs,
                   haiku, scraper_vars, tsukiuta, thread_vars, multiple_vars>>

\* an iteration that ends without an exception
Ends(ln, br, st, sh, li, h, sv) == IterationEnds("none", ln, br, st, sh, li, h, sv)

\* an iteration that ends in the except clauses with history and the file
\* as they were
Fails(ln, exception) ==
    IterationEnds(exception, ln, Caught(exception), AfterException(exception), None,
                  <<>>, history, saved)

\* input() at the main prompt raises
ReadFails ==
    /\ status = "prompt"
    /\ \E e \in InputErrors : Fails(<<>>, e)

\* quit, exit or q: the question whether to save when there is a history,
\* save_history on the answer y, and break
Quit ==
    /\ status = "prompt"
    /\ \E ln \in Lines :
          /\ Command(app, Strip(ln)) = "quit"
          /\ \/ /\ history = <<>>
                /\ Ends(ln, "quit", "ended", None, <<>>, history, saved)
             \/ /\ history # <<>>
                /\ \E answer \in Answers :
                      IF Lower(answer) = YesWord
                      THEN \/ Ends(ln, "quit", "ended", None, <<>>, history, history)
                           \/ Fails(ln, "OSError")
                      ELSE Ends(ln, "quit", "ended", None, <<>>, history, saved)
             \/ /\ history # <<>>
                /\ \E e \in InputErrors : Fails(ln, e)

\* history: the entries are printed
ShowHistory ==
    /\ status = "prompt"
    /\ \E ln \in Lines :
          /\ Command(app, Strip(ln)) = "history"
          /\ Ends(ln, "history", "prompt", None, <<>>, history, saved)

\* save: save_history when there is a history, a message when there is none
Save ==
    /\ status = "prompt"
    /\ \E ln \in Lines :
          /\ Command(app, Strip(ln)) = "save"
          /\ \/ Ends(ln, "save", "prompt", None, <<>>, history,
                     IF history # <<>> THEN history ELSE saved)
             \/ /\ history # <<>>
                /\ Fails(ln, "OSError")

\* multi (generate_cli_pattern.py only): a second input, and the candidates
\* of generate_multiple for it when it is not empty
Multi ==
    /\ status = "prompt"
    /\ \E ln \in Lines :
          /\ Command(app, Strip(ln)) = "multi"
          /\ \/ \E sub \in SubLines :
                   IF Strip(sub) # <<>>
                   THEN \E candidates \in generate_multiple(Strip(sub), MultiCount) :
                           Ends(ln, "multi", "prompt", None, candidates, history, saved)
                   ELSE Ends(ln, "multi", "prompt", None, <<>>, history, saved)
             \/ \E e \in InputErrors : Fails(ln, e)

\* an empty user_input
EmptyInput ==
    /\ status = "prompt"
    /\ \E ln \in Lines :
          /\ Command(app, Strip(ln)) = "empty"
          /\ Ends(ln, "empty", "prompt", None, <<>>, history, saved)

\* a user_input of more than 50 characters
TooLong ==
    /\ status = "prompt"
    /\ \E ln \in Lines :
          /\ Command(app, Strip(ln)) = "too_long"
          /\ Ends(ln, "too_long", "prompt", None, <<>>, history, saved)

\* any other user_input: the generator is called, the poem is displayed and
\* the entry is appended; the generator may raise, and Ctrl-C may arrive
\* while it runs or while display_tsukiuta prints
GenerateAndShow ==
    /\ status = "prompt"
    /\ Len(history) < MaxHistory
    /\ \E ln \in Lines :
          /\ Command(app, Strip(ln)) = "generate"
          /\ \/ \E r \in Generated(app, Strip(ln)) :
                   IF r.raised # "none" THEN Fails(ln, r.raised)
                   ELSE \/ Ends(ln, "generated", "prompt", r.tsukiuta, <<>>,
                                HistoryAppend(history,
                                    HistoryEntry(history, Strip(ln), r.tsukiuta)),
                                saved)
                        \/ IterationEnds("KeyboardInterrupt", ln, Caught("KeyboardInterrupt"),
                                    AfterException("KeyboardInterrupt"), r.tsukiuta,
                                    <<>>, history, saved)
             \/ Fails(ln, "KeyboardInterrupt")

NextConsole ==
    \/ ReadFails
    \/ Quit
    \/ ShowHistory
    \/ Save
    \/ Multi
    \/ EmptyInput
    \/ TooLong
    \/ GenerateAndShow

SpecConsole == InitConsole /\ [][NextConsole]_vars

(***************************************************************************)
(* Properties                                                              *)
(***************************************************************************)
\* s with every ASCII space and every U+3000 dropped
WithoutSpaces(s) == SelectSeq(s, LAMBDA x : x \notin {"sp", "zsp"})

\* s with every whitespace character dropped
WithoutWhitespace(s) == SelectSeq(s, LAMBDA x : x \notin Whitespace)

HasSpace(s) == \E k \in 1..Len(s) : s[k] \in {"sp", "zsp"}

HasYouon(s) == \E k \in 1..Len(s) : s[k] \in YouonChars

\* C1 as stated: whenever count_mora(text) is not 17, split_575(text) is None
\* and validate_575(text) is False.
C1_Original ==
    count_mora(text) # 17 =>
        /\ (op = "split_575" => split_result = None)
        /\ (op = "validate_575" => valid = FALSE)

\* C1 amended: whenever count_mora of the text with its ASCII and ideographic
\* spaces removed is not 17, split_575(text) is None and validate_575(text)
\* is False.
C1_FastReject ==
    count_mora(WithoutSpaces(text)) # 17 =>
        /\ (op = "split_575" => split_result = None)
        /\ (op = "validate_575" => valid = FALSE)

\* split_575 has rejected a text whose parts 5/7/5 exist but whose total is not 17
C1_Witness ==
    /\ op = "split_575"
    /\ split_result = None
    /\ count_mora(WithoutSpaces(text)) = 16
    /\ HasSpace(text)
    /\ \E i \in 1..Len(WithoutSpaces(text)) : \E j \in (i + 1)..Len(WithoutSpaces(text)) :
          LET t == WithoutSpaces(text)
          IN  /\ count_mora(Slice(t, 0, i)) = 5
              /\ count_mora(Slice(t, i, j)) = 7
              /\ count_mora(Slice(t, j, Len(t))) = 5

\* C2: whenever split_575 returns a triple, its three parts are non-empty and
\* count_mora gives 5, 7 and 5 for them.
C2_PartsAre575 ==
    (op = "split_575" /\ split_result # None) =>
        /\ Len(split_result) = 3
        /\ \A k \in 1..3 : split_result[k] # <<>>
        /\ count_mora(split_result[1]) = 5
        /\ count_mora(split_result[2]) = 7
        /\ count_mora(split_result[3]) = 5

\* a successful split whose parts are not 5, 7 and 5 characters long
C2_Witness ==
    /\ op = "split_575"
    /\ split_result # None
    /\ HasYouon(split_result[2])
    /\ Len(split_result[2]) = 8

\* C3 as stated: the three parts of a successful split, concatenated, are the
\* input with all whitespace removed.
C3_Original ==
    (op = "split_575" /\ split_result # None) =>
        split_result[1] \o split_result[2] \o split_result[3] = WithoutWhitespace(text)

\* C3 amended: the three parts of a successful split, concatenated, are the
\* input with every ASCII space and every ideographic space (U+3000) removed;
\* other whitespace (a tab) stays in the parts.
C3_RoundTrip ==
    (op = "split_575" /\ split_result # None) =>
        split_result[1] \o split_result[2] \o split_result[3] = WithoutSpaces(text)

\* a successful split of a text that held both kinds of space
C3_Witness ==
    /\ op = "split_575"
    /\ split_result # None
    /\ \E k \in 1..Len(text) : text[k] = "sp"
    /\ \E k \in 1..Len(text) : text[k] = "zsp"

\* boundary pairs (i, j), 1 <= i < j <= len(t), whose parts count 5, 7, 5
ValidPairs(t) ==
    { p \in (1..Len(t)) \X (1..Len(t)) :
        /\ p[1] < p[2]
        /\ count_mora(Slice(t, 0, p[1])) = 5
        /\ count_mora(Slice(t, p[1], p[2])) = 7
        /\ count_mora(Slice(t, p[2], Len(t))) = 5 }

\* the lexicographically smallest pair of a non-empty set of pairs
LeastPair(V) ==
    CHOOSE p \in V : \A q \in V : p[1] < q[1] \/ (p[1] = q[1] /\ p[2] <= q[2])

\* C4: for a stripped text of 17 mora, split_575 returns None only if no
\* boundary pair gives 5, 7, 5, and otherwise returns the split at the
\* lexicographically smallest such pair.
C4_FirstPair ==
    LET t == WithoutSpaces(text)
        V == ValidPairs(t)
    IN  (op = "split_575" /\ count_mora(t) = 17) =>
            IF V = {} THEN split_result = None
            ELSE LET p == LeastPair(V)
                 IN  split_result =
                        <<Slice(t, 0, p[1]), Slice(t, p[1], p[2]), Slice(t, p[2], Len(t))>>

\* a split chosen among several valid boundary pairs
C4_Witness ==
    /\ op = "split_575"
    /\ split_result # None
    /\ Cardinality(ValidPairs(WithoutSpaces(text))) >= 3

\* number of characters of the full-width text that are no small ya, yu, yo
NonYouonCharacters(s) ==
    LET t == han_to_zen(s)
    IN  Cardinality({ k \in 1..Len(t) :
                        t[k] \notin {"xya", "xyu", "xyo", "K_xya", "K_xyu", "K_xyo"} })

\* C5: count_mora(text) is the number of characters of the full-width text
\* minus the number of small ya/yu/yo in it; a small tsu, a moraic nasal and
\* a long-vowel mark count 1 each; the result is never negative.
C5_CountMora ==
    op = "count_mora" =>
        /\ mora_count = NonYouonCharacters(text)
        /\ mora_count >= 0
        /\ (/\ Len(text) = 1
            /\ text[1] \in {"xtsu", "K_xtsu", "n", "K_n", "choon"}) => mora_count = 1

\* a count of a text whose full-width form is shorter and holds a small kana
C5_Witness ==
    /\ op = "count_mora"
    /\ Len(han_to_zen(text)) < Len(text)
    /\ HasYouon(han_to_zen(text))
    /\ mora_count = 17

\* C6: format_575 returns the three parts of split_575 joined by single
\* spaces when the split succeeds, and the input itself when validate_575 is
\* False; it adds nothing but the two separators.
C6_Format ==
    op = "format_575" =>
        IF validate_575(text)
        THEN LET r == split_575(text)
             IN  /\ formatted = r[1] \o <<"sp">> \o r[2] \o <<"sp">> \o r[3]
                 /\ Len(formatted) = Len(WithoutSpaces(text)) + 2
        ELSE formatted = text

\* format_575 returned a text with spaces unchanged, because it does not split
C6_Witness ==
    /\ op = "format_575"
    /\ ~validate_575(text)
    /\ HasSpace(text)
    /\ formatted = text
    /\ Len(text) >= 17

WhitespaceOnly(s) == \A k \in 1..Len(s) : s[k] \in Whitespace

PunctuationOnly(s) ==
    s # <<>> /\ \A k \in 1..Len(s) : s[k] \in {"ten", "maru", "kagi_open"}

\* C7 as stated: for empty or whitespace-only text count_mora is 0, split_575
\* is None and is_haiku_structure with the text and its count is False.
C7_Original ==
    WhitespaceOnly(text) =>
        /\ (op = "count_mora" => mora_count = 0)
        /\ (op = "split_575" => split_result = None)
        /\ (op = "is_haiku_structure" => haiku = FALSE)

\* C7 amended: for whitespace-only text of n characters count_mora is n (0
\* for the empty text); split_575 is None unless exactly 17 of them are
\* neither ASCII nor ideographic spaces; is_haiku_structure with the text and
\* count_mora's count is False unless n = 17; with count_mora_with_ruby's
\* count, which is 0, it is False.
C7_WhitespaceOnly ==
    WhitespaceOnly(text) =>
        /\ (op = "count_mora" => mora_count = Len(text))
        /\ (op = "split_575" =>
                (split_result = None <=> Len(WithoutSpaces(text)) # 17))
        /\ (op = "is_haiku_structure" =>
                /\ mora_count = Len(text)
                /\ (haiku = FALSE <=> Len(text) # 17))
        /\ (op = "classify_line" => mora_count = 0 /\ haiku = FALSE)

\* is_haiku_structure has rejected two spaces, which split into three parts
C7_Witness ==
    /\ op = "is_haiku_structure"
    /\ WhitespaceOnly(text)
    /\ Len(text) = 2
    /\ haiku = FALSE

\* C8 as stated: for punctuation-only text of any length split_575 is None,
\* validate_575 is False and is_haiku_structure is False.
C8_Original ==
    PunctuationOnly(text) =>
        /\ (op = "split_575" => split_result = None)
        /\ (op = "validate_575" => valid = FALSE)
        /\ (op = "classify_line" => haiku = FALSE)

\* C8 amended: for punctuation-only text split_575 is None and validate_575
\* is False unless the text has exactly 17 characters, where split_575
\* returns its first 5, next 7 and last 5 characters and validate_575 is
\* True; is_haiku_structure is False with count_mora_with_ruby's count,
\* which is 0.
C8_PunctuationOnly ==
    PunctuationOnly(text) =>
        /\ (op = "split_575" =>
                IF Len(text) = 17
                THEN split_result =
                        <<Slice(text, 0, 5), Slice(text, 5, 12), Slice(text, 12, 17)>>
                ELSE split_result = None)
        /\ (op = "validate_575" => (valid <=> Len(text) = 17))
        /\ (op = "classify_line" => mora_count = 0 /\ haiku = FALSE)

\* the collector has rejected a line of 17 punctuation characters
C8_Witness ==
    /\ op = "classify_line"
    /\ PunctuationOnly(text)
    /\ Len(text) = 17
    /\ haiku = FALSE

\* the ruby groups of t as <<a, k, e>>, 1-based: a maximal run of kanji
\* a..k-1, the opening bracket at k, hiragana k+1..e-1 (at least one), the
\* closing bracket at e
RubyGroups(t) ==
    UNION { UNION { { <<a, k, e>> :
                        e \in { x \in (k + 2)..Len(t) :
                                  /\ t[x] = "ruby_close"
                                  /\ \A y \in (k + 1)..(x - 1) : t[y] \in Hiragana } } :
                    a \in { x \in 1..(k - 1) :
                              /\ \A y \in x..(k - 1) : t[y] \in Kanji
                              /\ (x = 1 \/ t[x - 1] \notin Kanji) } } :
            k \in { x \in 1..Len(t) : t[x] = "ruby_open" } }

\* t without the brackets and readings of its ruby groups
WithoutReadings(t) ==
    LET keep == SelectSeq([x \in 1..Len(t) |-> x],
                          LAMBDA x : ~\E g \in RubyGroups(t) : g[2] <= x /\ x <= g[3])
    IN  [i \in 1..Len(keep) |-> t[keep[i]]]

RECURSIVE Surfaces(_)
Surfaces(ps) == IF ps = <<>> THEN <<>> ELSE Head(ps)[1] \o Surfaces(Tail(ps))

\* C9: extract_text_with_ruby returns pairs with non-empty surfaces whose
\* surfaces, concatenated in order, are the input without the bracketed
\* readings of its ruby groups; the pairs with surface # reading are, in
\* order, exactly the groups (kanji run, reading); every other pair has
\* surface = reading.
C9_RubyPairs ==
    op = "extract_text_with_ruby" =>
        LET G == RubyGroups(text)
            annotated == SelectSeq(pairs, LAMBDA p : p[1] # p[2])
        IN  /\ \A n \in 1..Len(pairs) : Len(pairs[n]) = 2 /\ pairs[n][1] # <<>>
            /\ Surfaces(pairs) = WithoutReadings(text)
            /\ Len(annotated) = Cardinality(G)
            /\ \A g \in G :
                  annotated[Cardinality({ h \in G : h[1] <= g[1] })] =
                      <<SubSeq(text, g[1], g[2] - 1), SubSeq(text, g[2] + 1, g[3] - 1)>>

\* two groups with text before, between and after them
C9_Witness ==
    /\ op = "extract_text_with_ruby"
    /\ Cardinality(RubyGroups(text)) = 2
    /\ Len(pairs) = 5

\* C10 as stated: an input without a ruby group, the empty one included,
\* gives exactly one pair, (input, input).
C10_Original ==
    (op = "extract_text_with_ruby" /\ RubyGroups(text) = {}) =>
        pairs = << <<text, text>> >>

\* C10 amended: a non-empty input without a ruby group gives exactly one
\* pair, (input, input); the empty input gives no pair at all.
C10_NoMatch ==
    (op = "extract_text_with_ruby" /\ RubyGroups(text) = {}) =>
        IF text = <<>> THEN pairs = <<>> ELSE pairs = << <<text, text>> >>

\* an input with kanji, brackets and an empty reading, returned as one pair
C10_Witness ==
    /\ op = "extract_text_with_ruby"
    /\ RubyGroups(text) = {}
    /\ Contains(text, <<"kj_tsuki", "ruby_open", "ruby_close">>)
    /\ pairs = << <<text, text>> >>

\* every pair of ps is annotated: its surface differs from its reading
AllAnnotated(ps) == \A k \in 1..Len(ps) : ps[k][1] # ps[k][2]

\* the characters of the kana blocks
KanaChars == Hiragana \cup Katakana \cup {"choon", "K_vu"}

\* the positions of c that add a mora when a small vowel adds 0 exactly
\* when the character before it is a kana
MoraAfterKana(c) ==
    { k \in 1..Len(c) :
        /\ c[k] \in KanaChars
        /\ ~(c[k] \in YouonChars /\ k > 1 /\ c[k - 1] \in KanaChars) }

\* the positions of c that add a mora when a small vowel adds 0 at every
\* position but the first, and only [U+3041-U+3093], [U+30A1-U+30F3] and
\* U+30FC count as kana
MoraAfterFirst(c) ==
    { k \in 1..Len(c) :
        /\ c[k] \in Hiragana \cup Katakana \cup {"choon"}
        /\ ~(c[k] \in YouonChars /\ k > 1) }

\* the sum of a sequence of numbers
RECURSIVE SumSeq(_)
SumSeq(ns) == IF ns = <<>> THEN 0 ELSE Head(ns) + SumSeq(Tail(ns))

ReadingMoraAfterKana(r) ==
    Cardinality(MoraAfterKana(
        SelectSeq(r, LAMBDA x : x \notin Punctuation \cup Whitespace)))

ReadingMoraAfterFirst(r) ==
    Cardinality(MoraAfterFirst(
        SelectSeq(r, LAMBDA x : x \notin {"ten", "maru", "sp"})))

UnannotatedMoraAsReading(t) ==
    LET c == SelectSeq(t, LAMBDA x : x \notin Punctuation \cup Whitespace)
    IN  Cardinality(MoraAfterKana(c))
            + KanjiEstimate * Cardinality({ k \in 1..Len(c) : c[k] \in Kanji })

\* t is a string of kana of [U+3041-U+3093], [U+30A1-U+30F3] and U+30FC
IsKanaString(t) ==
    /\ t # <<>>
    /\ \A k \in 1..Len(t) : t[k] \in Hiragana \cup Katakana \cup {"choon"}

\* C12: an unannotated pair (surface = reading) adds the kana-mora count of
\* its kana by the rule of readings, 2 for every ideograph and 0 for every
\* other character, so a kana string adds the same whether it is an annotated
\* reading or an unannotated text
C12_Original ==
    op = "count_pairs"
        => /\ mora_count =
                SumSeq([k \in 1..Len(pairs) |->
                    IF pairs[k][1] # pairs[k][2]
                    THEN ReadingMoraAfterFirst(pairs[k][2])
                    ELSE UnannotatedMoraAsReading(pairs[k][1])])
           /\ \A k \in 1..Len(pairs) :
                IsKanaString(pairs[k][2])
                    => count_mora_with_ruby(<< <<pairs[k][2], pairs[k][2]>> >>)
                         = count_mora_with_ruby(<< << <<"kj_tsuki">>, pairs[k][2] >> >>)

\* the unannotated text ki + small ya is counted 2, the same string as an
\* annotated reading 1
C12_Witness ==
    /\ op = "count_pairs"
    /\ pairs = << <<<<"ki", "xya">>, <<"ki", "xya">>>> >>
    /\ mora_count = 2
    /\ count_mora_with_ruby(<< << <<"kj_tsuki">>, <<"ki", "xya">> >> >>) = 1

\* C13: is_haiku_structure returns False whenever the mora count is outside
\* [15, 19] or the text matches an exclusion pattern, whatever else holds; so
\* every accepted line has a mora count in [15, 19] and matches no exclusion
\* pattern
C13_RangeAndExclusion ==
    (op = "is_haiku_structure" /\ text \in HaikuTexts)
        => /\ (mora_count < 15 \/ mora_count > 19) => ~haiku
           /\ (\/ Contains(text, <<"de", "su">>)
               \/ (text # <<>> /\ Head(text) = "kagi_open")) => ~haiku
           /\ haiku => /\ mora_count \in 15..19
                       /\ ~exclude_patterns(text)

\* an excluded text that every later rule would accept (three parts, a
\* seasonal word, 17 morae), and a text of 3 parts with 20 morae
C13_Witness ==
    /\ op = "is_haiku_structure"
    /\ ~haiku
    /\ \/ /\ text = <<"kj_tsuki", "sp", "de", "su", "sp">>
          /\ mora_count = 17
       \/ /\ text = <<"a", "sp", "a", "sp", "a">>
          /\ mora_count = 20

\* the parts of s between its whitespace characters, as re.split gives them
RECURSIVE SplitParts(_, _)
SplitParts(s, part) ==
    IF s = <<>> THEN <<part>>
    ELSE IF Head(s) \in Whitespace THEN <<part>> \o SplitParts(Tail(s), <<>>)
    ELSE SplitParts(Tail(s), Append(part, Head(s)))

\* splitting s on whitespace gives exactly 3 parts, none of them empty
ThreeNonEmptyParts(s) ==
    LET parts == SplitParts(s, <<>>)
    IN  Len(parts) = 3 /\ \A k \in 1..3 : parts[k] # <<>>

\* no rule after the three-part rule accepts s with this mora count
NoLaterRule(s, mora) ==
    /\ ~has_kireji(s)
    /\ ~has_kigo(s)
    /\ ~TaigenEnding(s)
    /\ mora # 17

\* C14: with a mora count in [15, 19] and no exclusion match, the three-part
\* rule accepts exactly when splitting on whitespace gives 3 parts that are
\* all non-empty; 3 parts of which one is empty do not cause acceptance
C14_Original ==
    (/\ op = "is_haiku_structure"
     /\ text \in HaikuTexts
     /\ mora_count \in 15..19
     /\ ~exclude_patterns(text))
        => /\ ThreeNonEmptyParts(text) => haiku
           /\ (~ThreeNonEmptyParts(text) /\ NoLaterRule(text, mora_count)) => ~haiku

\* one kana and two adjacent spaces with 15 morae: 3 parts, two of them
\* empty, no later rule applies, and the line is accepted
C14_Witness ==
    /\ op = "is_haiku_structure"
    /\ text = <<"a", "sp", "sp">>
    /\ mora_count = 15
    /\ NoLaterRule(text, mora_count)
    /\ haiku

\* s ends with a cutting particle
EndsWithKireji(s) ==
    \E n \in 1..2 :
        /\ Len(s) >= n
        /\ SubSeq(s, Len(s) - n + 1, Len(s)) \in { kireji[k] : k \in 1..Len(kireji) }

\* somewhere in s a cutting particle is immediately followed by an ASCII
\* space or by U+3000
KirejiBeforeSpace(s) ==
    \E i \in 1..Len(s) :
        /\ s[i] \in {"sp", "zsp"}
        /\ EndsWithKireji(SubSeq(s, 1, i - 1))

\* the last character of s is one of ki ku shi su mu ru
EndsWithTaigen(s) ==
    Len(s) >= 1 /\ s[Len(s)] \in {"ki", "ku", "shi", "su", "mu", "ru"}

\* s contains a seasonal word
ContainsKigo(s) ==
    \E name \in {"spring", "summer", "autumn", "winter"} :
        \E k \in 1..Len(kigo[name]) : Contains(s, kigo[name][k])

\* C15 as stated: cutting particles count at the end of the text only
C15_Original ==
    (/\ op = "is_haiku_structure"
     /\ text \in HaikuTexts
     /\ mora_count \in 15..19
     /\ ~exclude_patterns(text)
     /\ Len(SplitParts(text, <<>>)) # 3)
        => (haiku <=> \/ EndsWithKireji(text)
                      \/ ContainsKigo(text)
                      \/ EndsWithTaigen(text)
                      \/ mora_count = 17)

\* C15: with a mora count in [15, 19], no exclusion match and no split into 3
\* parts, is_haiku_structure returns True iff the text ends with a cutting
\* particle, or has a cutting particle immediately followed by an ASCII space
\* or U+3000, or contains a seasonal word, or ends with one of ki ku shi su mu
\* ru (one final newline after it is ignored), or the mora count is 17; a
\* cutting particle in mid-text counts only when such a space follows it
C15_LaterRules ==
    (/\ op = "is_haiku_structure"
     /\ text \in HaikuTexts
     /\ mora_count \in 15..19
     /\ ~exclude_patterns(text)
     /\ Len(SplitParts(text, <<>>)) # 3)
        => (haiku <=> \/ EndsWithKireji(text)
                      \/ KirejiBeforeSpace(text)
                      \/ ContainsKigo(text)
                      \/ EndsWithTaigen(text)
                      \/ (Len(text) >= 2 /\ text[Len(text)] = "nl"
                            /\ EndsWithTaigen(SubSeq(text, 1, Len(text) - 1)))
                      \/ mora_count = 17)

\* a cutting particle followed by a space in mid-text and nothing else that
\* accepts: accepted
C15_Witness ==
    /\ op = "is_haiku_structure"
    /\ mora_count = 15
    /\ text = <<"ya", "sp", "a">>
    /\ ~EndsWithKireji(text)
    /\ haiku

\* the seasons in the order spring, summer, autumn, winter that have a word
\* in s, as positions 1..4
MatchingSeasons(s) ==
    LET order == <<"spring", "summer", "autumn", "winter">>
    IN  { i \in 1..4 : \E k \in 1..Len(kigo[order[i]]) :
                           Contains(s, kigo[order[i]][k]) }

\* C16: detect_season returns the first season, in the order spring, summer,
\* autumn, winter, whose word set has a member that is a substring of the
\* text, and None when no season has one; for the text U+6708 it is autumn
C16_FirstSeason ==
    op = "detect_season"
        => /\ MatchingSeasons(text) = {} => season_tag = NoSeason
           /\ MatchingSeasons(text) # {} =>
                \E i \in MatchingSeasons(text) :
                    /\ \A j \in MatchingSeasons(text) : i <= j
                    /\ season_tag = <<"spring", "summer", "autumn", "winter">>[i]
           /\ text = <<"kj_tsuki">> => season_tag = "autumn"

\* a winter word before an autumn word: autumn comes first in the order
C16_Witness ==
    /\ op = "detect_season"
    /\ text = <<"kj_yuki", "kj_tsuki">>
    /\ MatchingSeasons(text) = {3, 4}
    /\ season_tag = "autumn"

\* C17: calculate_confidence is min(1.0, 0.5 + m + k + s), with m = 0.3 for a
\* mora count of 17, 0.1 for 16 or 18 and 0 otherwise, k = 0.1 iff the text
\* ends with a cutting particle, s = 0.1 iff detect_season is not None; in
\* tenths the value is an integer from 5 to 10
C17_Confidence ==
    op = "calculate_confidence"
        => LET m == IF mora_count = 17 THEN 3
                    ELSE IF mora_count \in {16, 18} THEN 1 ELSE 0
               k == IF EndsWithKireji(text) THEN 1 ELSE 0
               s == IF MatchingSeasons(text) # {} THEN 1 ELSE 0
               sum == 5 + m + k + s
           IN  /\ confidence = (IF sum > 10 THEN 10 ELSE sum)
               /\ confidence \in 5..10

\* 18 morae, a final cutting particle and no seasonal word: 0.5 + 0.1 + 0.1
C17_Witness ==
    /\ op = "calculate_confidence"
    /\ text = <<"ya", "ya">>
    /\ mora_count = 18
    /\ confidence = 7

\* C18 as stated: for a text that ends with a cutting particle and contains a
\* seasonal word the confidence is 0.9 with 17 morae and 0.7 with 16, the
\* first strictly greater than the second and both below 1.0
C18_Original ==
    (/\ op = "calculate_confidence"
     /\ EndsWithKireji(text)
     /\ MatchingSeasons(text) # {})
        => /\ mora_count = 17 => confidence = 9
           /\ mora_count = 16 => confidence = 7
           /\ mora_count = 17 => confidence > calculate_confidence(text, 16)

\* C18: for a text that ends with a cutting particle and contains a seasonal
\* word the confidence with 17 morae is strictly greater than with 16 morae:
\* the two values are 1.0, which is the value of the clamp, and 0.8
C18_Monotone ==
    (/\ op = "calculate_confidence"
     /\ EndsWithKireji(text)
     /\ MatchingSeasons(text) # {})
        => /\ mora_count = 17 => confidence = 10
           /\ mora_count = 16 => confidence = 8
           /\ mora_count = 17 => confidence > calculate_confidence(text, 16)

\* a seasonal word and a final cutting particle with 17 morae
C18_Witness ==
    /\ op = "calculate_confidence"
    /\ text = <<"kj_tsuki", "ya">>
    /\ mora_count = 17
    /\ confidence = 10
    /\ calculate_confidence(text, 16) = 8

\* C20: for every user input and every random choice generate returns a
\* string of three parts separated by single spaces whose count_mora are 5,
\* 7 and 5, and none of its three assertions fails
C20_Original ==
    op = "generate"
        => /\ raised = "none"
           /\ LET parts == SplitParts(tsukiuta, <<>>)
              IN  /\ Len(parts) = 3
                  /\ count_mora(parts[1]) = 5
                  /\ count_mora(parts[2]) = 7
                  /\ count_mora(parts[3]) = 5

\* the user input U+98A8: the only middle candidate is naka_7's entry of 6
\* characters, and the second assertion fails
C20_Witness ==
    /\ op = "generate"
    /\ text = <<"kj_kaze">>
    /\ Candidates(naka_7, related_elements(extract_keywords(text)))
          = { <<"ka", "ze", "to", "to", "mo", "ni">> }
    /\ raised = "AssertionError"
    /\ tsukiuta = None

\* the result of a call that runs alone
RunAlone(c) ==
    CASE c.call = "count_mora" -> count_mora(c.text)
      [] c.call = "split_575" -> split_575(c.text)
      [] c.call = "extract_text_with_ruby" -> extract_text_with_ruby(c.text)
      [] c.call = "count_mora_with_ruby" -> count_mora_with_ruby(c.pairs)
      [] c.call = "is_haiku_structure" -> is_haiku_structure(c.text, c.mora)
      [] c.call = "detect_season" -> detect_season(c.text)
      [] c.call = "calculate_confidence" -> calculate_confidence(c.text, c.mora)

\* C19: under every interleaving of concurrent calls of the seven methods on
\* shared instances the lexicons (small-vowel list, cutting-particle list,
\* seasonal-word table, exclusion pattern list) stay as constructed, and
\* every call returns what it returns when it runs alone on its arguments
C19_Isolation ==
    /\ shared_youon = <<"xya", "xyu", "xyo", "K_xya", "K_xyu", "K_xyo">>
    /\ shared_kireji = kireji
    /\ shared_kigo = kigo
    /\ shared_exclude = <<1, 2, 3, 4, 5, 6>>
    /\ \A t \in Threads : pc[t] = "done" => results[t] = RunAlone(calls[t])

\* thread 1 has returned from count_mora while thread 2 is in the middle of
\* the same method's loop over the small-vowel list
C19_Witness ==
    /\ pc[1] = "done"
    /\ calls[1].call = "count_mora"
    /\ results[1] = 5
    /\ pc[2] = "running"
    /\ calls[2].call = "count_mora"
    /\ frames[2].k = 3
    /\ frames[2].n = 6

(***************************************************************************)
(* C21                                                                     *)
(***************************************************************************)
\* the parts of a candidate are three and count 5, 7 and 5
Is575(candidate) ==
    LET parts == SplitParts(candidate, <<>>)
    IN  /\ Len(parts) = 3
        /\ count_mora(parts[1]) = 5
        /\ count_mora(parts[2]) = 7
        /\ count_mora(parts[3]) = 5

\* no two entries of a list are equal
Distinct(q) == \A j, k \in 1..Len(q) : j # k => q[j] # q[k]

\* C21: every candidate returned by generate_multiple has three
\* space-separated parts whose count_mora are 5, 7 and 5, the list has at
\* most count entries and no two entries are equal
C21_Original ==
    op = "generate_multiple"
        => /\ \A k \in 1..Len(tsukiuta_list) : Is575(tsukiuta_list[k])
           /\ Len(tsukiuta_list) <= multi_count
           /\ Distinct(tsukiuta_list)

\* the user input U+98A8 with count 3: the only combination has naka_7's
\* entry of 6 characters in the middle, and it is the one candidate returned
C21_Witness ==
    /\ op = "generate_multiple"
    /\ text = <<"kj_kaze">>
    /\ multi_count = 3
    /\ tsukiuta_list = << <<"ka", "ze", "su", "zu", "shi", "sp",
                             "ka", "ze", "to", "to", "mo", "ni", "sp",
                             "ka", "ze", "zo", "fu", "ku">> >>
    /\ count_mora(SplitParts(tsukiuta_list[1], <<>>)[2]) = 6

(***************************************************************************)
(* C22                                                                     *)
(***************************************************************************)
\* history after the step is history before it and one more entry at the end
OneAppended == Len(history') = Len(history) + 1 /\ SubSeq(history', 1, Len(history)) = history

\* the entry at the end of history after the step records the input of the
\* iteration, stripped, and the poem the iteration displayed
LastRecordsIteration ==
    /\ history'[Len(history')].input = Strip(line')
    /\ history'[Len(history')].tsukiuta = shown'
    /\ shown' # None

\* C22 as stated, for both consoles: an iteration leaves history as it was
\* or appends one entry recording its input and the poem shown, the latter
\* exactly when generation and display completed; history, save, multi, an
\* empty input and an input of more than 50 characters leave it unchanged
C22_Original ==
    [][ /\ history' = history \/ (OneAppended /\ LastRecordsIteration)
        /\ OneAppended <=> branch' = "generated"
        /\ ( \/ Lower(Strip(line')) \in {HistoryWord, SaveWord, MultiWord}
             \/ Strip(line') = <<>>
             \/ Len(Strip(line')) > 50 )
              => history' = history ]_vars

\* C22: in both consoles an iteration appends one entry, recording the
\* stripped input and the poem displayed, when it reaches the append
\* statement and leaves history as it was otherwise; it reaches the append
\* only for a stripped input that is not empty, has at most 50 characters
\* and is none of quit, exit, q, history, save in any letter case, nor multi
\* in the pattern console
C22_AppendOnly ==
    [][ /\ IF branch' = "generated"
           THEN OneAppended /\ LastRecordsIteration
           ELSE history' = history
        /\ branch' = "generated"
              => /\ Strip(line') # <<>>
                 /\ Len(Strip(line')) <= 50
                 /\ Lower(Strip(line')) \notin QuitWords \cup {HistoryWord, SaveWord}
                 /\ app = "pattern" => Lower(Strip(line')) # MultiWord ]_vars

\* the model console after the inputs "multi" and the line of 50 characters
\* and a space: two entries in that order, the second recording the
\* stripped line and the poem just displayed
C22_Witness ==
    /\ app = "model"
    /\ Len(history) = 2
    /\ history[1].input = MultiWord
    /\ history[2].input = FullInput
    /\ line = FullInput \o <<"sp">>
    /\ branch = "generated"
    /\ shown = history[2].tsukiuta

(***************************************************************************)
(* C23                                                                     *)
(***************************************************************************)
\* C23: in the pattern console, an iteration in which generate raises an
\* assertion failure is caught: no poem is displayed, history is as it was
\* and the loop is at the prompt again; the loop ends only in an iteration
\* that read quit, exit or q or that was interrupted from the keyboard
C23_Caught ==
    [][ app = "pattern"
          => /\ raised' = "AssertionError"
                  => /\ branch' = "error"
                     /\ shown' = None
                     /\ history' = history
                     /\ status' = "prompt"
             /\ status' = "ended"
                  => \/ branch' = "quit" /\ Lower(Strip(line')) \in QuitWords
                     \/ branch' = "interrupt" /\ raised' = "KeyboardInterrupt" ]_vars

\* the pattern console after a poem for the line of 50 characters and then
\* an assertion failure for the same line: the entry is still the only one
\* and the loop is at the prompt
C23_Witness ==
    /\ app = "pattern"
    /\ raised = "AssertionError"
    /\ branch = "error"
    /\ line = FullInput
    /\ [tsukiuta |-> None, raised |-> "AssertionError"] \in generate(Strip(line))
    /\ shown = None
    /\ Len(history) = 1
    /\ status = "prompt"

====
